---- MODULE Spec2Model ----
(***************************************************************************)
(* KajovoPasport: the interactive image editor (image_editor.py), the      *)
(* main window (app.py), the settings (settings.py), the PDF page          *)
(* (pdf_utils.py) and the card store (db.py).                              *)
(*                                                                         *)
(* Spec      the event handlers of one ImageEditor session, started from   *)
(*           the fields __init__ assigns (lines 39-57), the zoom variable  *)
(*           of the scale taken as present.                                *)
(* SpecLive  Spec with the after() callbacks run fairly.                   *)
(* SpecOpen  the constructor call itself (edit_image_dialog -> __init__ -> *)
(*           _build_ui), attribute by attribute: it shows that the code    *)
(*           as written never assigns that variable.                       *)
(* SpecPointer  Spec with the pointer leaving and entering the canvas.     *)
(* SpecCover    _render_output_image over source and output sizes.         *)
(* SpecSelect   App._select_image_for_field up to the editor's constructor.*)
(* SpecStore    the Database methods on one connection, with failures of   *)
(*              set_image, crashes and the clock.                          *)
(* SpecZoom     _zoom applied twice, set against one call with the product.*)
(* SpecSettings Settings values as loaded or entered, and output_size.     *)
(* SpecGrid     render_preview and generate_card_pdf over slot mappings.   *)
(* SpecApp      the main window's handlers over the store, each call       *)
(*              returning or raising, with the clicks on the preview's     *)
(*              cells and the cell menu.                                   *)
(* SpecSwitch   SpecApp with Load and Settings switching the database.     *)
(*                                                                         *)
(* Floats are modelled as exact rationals <<n, d>> with d > 0, in lowest   *)
(* terms.  PNG bytes and preview pixels are abstracted to the              *)
(* TransformState (and size) they were rendered from.                      *)
(***************************************************************************)
EXTENDS Integers, Sequences, FiniteSets, TLC

(* ------------------------------ bounds -------------------------------- *)
\* number of appearance-affecting handler calls explored in one session
MaxOps == 3

(* --------------------------- rational numbers ------------------------- *)
Abs(x) == IF x < 0 THEN -x ELSE x

RECURSIVE GCD(_, _)
GCD(a, b) == IF b = 0 THEN a ELSE GCD(b, a % b)

Rat(n, d) == LET g == GCD(Abs(n), d) IN <<n \div g, d \div g>>
R(i) == <<i, 1>>
RAdd(a, b) == Rat(a[1] * b[2] + b[1] * a[2], a[2] * b[2])
RMul(a, b) == Rat(a[1] * b[1], a[2] * b[2])
RLt(a, b) == a[1] * b[2] < b[1] * a[2]
RLe(a, b) == a[1] * b[2] <= b[1] * a[2]
\* Python max(a, b) / min(a, b): the first argument unless the second is
\* strictly larger / smaller
RMax(a, b) == IF RLt(a, b) THEN b ELSE a
RMin(a, b) == IF RLt(b, a) THEN b ELSE a
IMax(a, b) == IF b > a THEN b ELSE a

\* Python int(round(n / d)) for d > 0: round half to even
RoundHalfEven(n, d) ==
    LET q == n \div d
        r == n % d
    IN  IF 2 * r < d THEN q
        ELSE IF 2 * r > d THEN q + 1
        ELSE IF q % 2 = 0 THEN q ELSE q + 1

RECURSIVE RPow(_, _)
\* Python base ** steps for an integer number of steps
RPow(base, steps) ==
    IF steps = 0 THEN R(1)
    ELSE IF steps > 0 THEN RMul(base, RPow(base, steps - 1))
    ELSE RMul(<<base[2], base[1]>>, RPow(base, steps + 1))

Range(s) == {s[i] : i \in 1..Len(s)}
None == <<>>

(* ------------------------------ state --------------------------------- *)
VARIABLES
    phase,           \* "new" | "open" | "failed" | "closed": the Toplevel's life
    attrs,           \* names of the instance attributes assigned so far
    original,        \* self.original.size  <<ow, oh>>
    out_size,        \* <<self.out_w, self.out_h>>
    base_scale,      \* self.base_scale
    state,           \* self.state : TransformState
    zoom_var,        \* the value held by the zoom slider / its variable
    drag_start,      \* self._drag_start : None or <<x, y, ox, oy>>
    pending_render,  \* self._pending_render : 0 (None) or an after id
    timers,          \* outstanding after() callbacks of the window, by due time
    canvas,          \* <<winfo_width, winfo_height>> of the canvas
    crop_rect,       \* self.crop_rect (meaningful once "crop_rect" \in attrs)
    preview_photo,   \* self._preview_photo : None or <<state, crop_w, crop_h>>
    result_png,      \* self._result_png : None or <<state the PNG was rendered from>>
    rendered,        \* history: None or <<state read by the latest _render>>
    batchN,          \* history: number of mutations in the latest batch (0: none yet)
    batchRenders,    \* history: _render executions since the first mutation of that batch
    last_op,         \* history: <<handler, argument>> of the latest mutation or report
    nops,            \* history: number of appearance-affecting handler calls
    pointer_in,      \* whether the pointer is over the canvas
    paste,           \* None or <<sw, sh, left, top>> of the latest composition
    picked,          \* app: None or the file chosen, [kind, size]
    app_error,       \* app: "" or the title of the error box shown
    cards,           \* store: table cards as the connection sees it, [rows, seq]
    images,          \* store: rows of table images, as the connection sees them
    disk,            \* store: <<cards, images>> as last committed
    clock,           \* store: now_utc(), in whole seconds
    call,            \* store: the call in progress, or the latest one and how it ended
    zoomed,          \* None or the zooms compared: [z, f1, f2, two, one]
    settings,        \* app: self.settings, [aspect_ratio, output_width_px]
    grid,            \* None or what the two renderers drew, cell by cell
    listed,          \* app: self.cards, the rows list_cards returned last
    current_card,    \* app: self.current_card, None or a row of cards
    current_images,  \* app: self.current_images, field_key -> bytes
    last_clicked_field, \* app: self._last_clicked_field, "" or a field key
    cell_menu,       \* None or the cell menu as posted: [field, card]
    db,              \* app: self.db, [path, open]
    db_path,         \* app: self.settings.db_path, as settings.json has it
    files            \* the database files, as they were when last closed

vars == <<phase, attrs, original, out_size, base_scale, state, zoom_var,
          drag_start, pending_render, timers, canvas, crop_rect,
          preview_photo, result_png, rendered, batchN, batchRenders,
          last_op, nops, pointer_in, paste, picked, app_error,
          cards, images, disk, clock, call, zoomed, settings, grid,
          listed, current_card, current_images, last_clicked_field,
          cell_menu, db, db_path, files>>

\* the cell clicked last and the menu posted for it, the database handle,
\* the path the settings name and the database files
window == <<last_clicked_field, cell_menu, db, db_path, files>>

\* the zoom comparison, the settings, the renderers' record and the main
\* window's view of the store
beyond == <<zoomed, settings, grid, listed, current_card, current_images,
            window>>

\* what lies outside the editor session: the compositor's geometry record,
\* the application's selection flow and the card store
outside == <<paste, picked, app_error, cards, images, disk, clock, call, beyond>>

(* --------------------------- TransformState --------------------------- *)
TransformState == [zoom |-> R(1), angle_deg |-> 0, offset_x |-> R(0), offset_y |-> R(0)]

(* ------------------------------ inputs -------------------------------- *)
\* the session explored: <<source size, output size>>; 4 x 6 is
\* Settings.output_size for the aspect ratio 2:3
Sessions == {<<<<4, 3>>, <<4, 6>>>>}
\* canvas sizes: 1 x 1 is what winfo reports before the window is mapped
Unmapped == <<1, 1>>
CanvasSizes == {<<100, 100>>, <<64, 100>>}
\* pointer positions: where the button goes down, and where it moves to
PressXY == {<<50, 50>>}
PointerXY == {<<50, 50>>, <<54, 47>>}
WheelDeltas == {-120, 0}
RotateDegs == {-90, 360, -725}
\* what _on_slider_change is handed: the text of a number (as the rational
\* it denotes), or text float() rejects (BadText)
BadText == <<>>
SliderTexts == {BadText, <<1, 10>>, <<9, 1>>}

pad == 20

(* --------------------------- base scale ------------------------------- *)
\* mutant: the scale that fits the source inside the output (min for max)
BaseScaleFit(src, out) ==
    RMin(Rat(out[1], IMax(1, src[1])), Rat(out[2], IMax(1, src[2])))

\* max(out_w / max(1, ow), out_h / max(1, oh))
BaseScale(src, out) ==
    RMax(Rat(out[1], IMax(1, src[1])), Rat(out[2], IMax(1, src[2])))

(* ------------------------- zoom and rotation -------------------------- *)
ZOOM_MIN == <<1, 5>>
ZOOM_MAX == <<8, 1>>
SLIDER_FROM == <<3, 10>>
SLIDER_TO == <<5, 1>>

\* _zoom line 252: max(0.2, min(8.0, zoom * factor))
ZoomBy(z, f) == RMax(ZOOM_MIN, RMin(ZOOM_MAX, RMul(z, f)))

\* mutant: the slider value stored without clamping
ZoomToUnclamped(v) == v

\* _on_slider_change line 127: max(0.3, min(5.0, zoom_value))
ZoomTo(v) == RMax(SLIDER_FROM, RMin(SLIDER_TO, v))

\* _on_slider_change lines 123-127: float(value) raises ValueError for text
\* that is no number, and the handler returns with the zoom unchanged
SliderZoom(z, text) == IF text = BadText THEN z ELSE ZoomTo(text)

\* zoom_slider.set(v) on the ttk.Scale built with from_=0.3, to=5.0: the
\* widget keeps v limited to its range
ScaleSet(v) == RMax(SLIDER_FROM, RMin(SLIDER_TO, v))

\* mutant: a remainder that keeps the sign of the dividend (C-style %)
RotateRem(a, deg) ==
    IF a + deg >= 0 THEN (a + deg) % 360 ELSE -((-(a + deg)) % 360)

\* _rotate line 259: int((angle_deg + deg) % 360)
Rotate(a, deg) == (a + deg) % 360

\* _on_mousewheel lines 247-248: 1.1 ** (delta / 120.0), for whole notches
WheelFactor(delta) == RPow(<<11, 10>>, delta \div 120)

(* ------------------------- render scheduling -------------------------- *)
FreshId(t) == CHOOSE i \in 1..(Len(t) + 1) :
                  /\ i \notin Range(t)
                  /\ \A j \in 1..(i - 1) : j \in Range(t)

\* mutant: the "already pending" test dropped
ScheduleRenderNoGuard(p, t) ==
    LET id == FreshId(t) IN <<id, Append(t, id)>>

\* mutant: the "already pending" test inverted
ScheduleRenderInverted(p, t) ==
    IF p = 0 THEN <<p, t>>
    ELSE LET id == FreshId(t) IN <<id, Append(t, id)>>

\* _schedule_render: <<_pending_render, outstanding callbacks>> afterwards
ScheduleRender(p, t) ==
    IF p # 0 THEN <<p, t>>
    ELSE LET id == FreshId(t) IN <<id, Append(t, id)>>

\* after_cancel(id): the callback no longer fires
AfterCancel(t, id) == SelectSeq(t, LAMBDA x : x # id)

\* mutant: the handle is cancelled but _pending_render is not reset
RenderCancelKeep(p, t) ==
    IF p # 0 THEN <<p, AfterCancel(t, p)>> ELSE <<p, t>>

\* _render lines 136-141: <<_pending_render, outstanding callbacks>> afterwards,
\* t being the callbacks still outstanding when _render starts
RenderCancel(p, t) ==
    IF p # 0 THEN <<0, AfterCancel(t, p)>> ELSE <<p, t>>

\* _render lines 143-155: the crop rectangle's size <<crop_w, crop_h>>
CropSize(cv, out) ==
    LET cw == IMax(1, cv[1])
        ch == IMax(1, cv[2])
        avail_w == IMax(1, cw - 2 * pad)
        avail_h == IMax(1, ch - 2 * pad)
    IN  IF avail_w * out[2] > out[1] * avail_h
        THEN <<RoundHalfEven(avail_h * out[1], out[2]), avail_h>>
        ELSE <<avail_w, RoundHalfEven(avail_w * out[2], out[1])>>

\* _render lines 157-162
CropRect(cv, out) ==
    LET cw == IMax(1, cv[1])
        ch == IMax(1, cv[2])
        c == CropSize(cv, out)
    IN  <<(cw - c[1]) \div 2, (ch - c[2]) \div 2,
          (cw + c[1]) \div 2, (ch + c[2]) \div 2>>

(* ------------------------------ dragging ------------------------------ *)
\* _on_drag_move line 230: getattr(self, "crop_rect", (0, 0, 1, 1))
CropRectOr(at, cr) == IF "crop_rect" \in at THEN cr ELSE <<0, 0, 1, 1>>

\* mutant: canvas pixels added to the offset without the crop-rect scaling
DragOffsetUnscaled(ds, x, y, cr, out) ==
    <<RAdd(ds[3], R(x - ds[1])), RAdd(ds[4], R(y - ds[2]))>>

\* _on_drag_move lines 225-236: the new <<offset_x, offset_y>>
DragOffset(ds, x, y, cr, out) ==
    LET dx == x - ds[1]
        dy == y - ds[2]
        crop_w == IMax(1, cr[3] - cr[1])
        crop_h == IMax(1, cr[4] - cr[2])
    IN  <<RAdd(ds[3], RMul(R(dx), Rat(out[1], crop_w))),
          RAdd(ds[4], RMul(R(dy), Rat(out[2], crop_h)))>>

\* mutant: the drag start recorded without the offset in force
DragCaptureZero(x, y, st) == <<x, y, R(0), R(0)>>

\* _on_drag_start line 220
DragCapture(x, y, st) == <<x, y, st.offset_x, st.offset_y>>

(* --------------------------- the attributes --------------------------- *)
\* the attributes __init__ assigns before it calls _build_ui (lines 39-49)
FieldAttrs == {"original", "out_w", "out_h", "state", "base_scale",
               "_drag_start", "_pending_render", "_preview_photo"}
\* what _build_ui adds (lines 68, 95), given the zoom variable it reads
UiAttrs == {"canvas", "zoom_var", "zoom_slider"}
SessionAttrs == FieldAttrs \cup UiAttrs \cup {"_result_png"}


\* SQL NULL in the png column (None in Python; b"" is a value of its own)
NULL == "NULL"
\* table cards of a new database: no row, AUTOINCREMENT sequence at 0
NoCards == [rows |-> {}, seq |-> 0]
\* the call record once Database(path) has returned
NoCall == [op |-> "__init__", card_id |-> 0, field_key |-> "", png |-> NULL,
           status |-> "done", cascaded |-> 0, n |-> 0]

\* Settings() as settings.py lines 29-34 default it, for the %APPDATA% path
\* (a "W:H" text is the sequence of its parts between colons, each part
\* <<n>> when int() reads it as n and <<>> when int() rejects it)
DefaultSettings == [aspect_ratio |-> <<<<2>>, <<3>>>>, output_width_px |-> 800]

\* the paths a database is opened from: default_db_path() (settings.py
\* lines 24-25), another database, and a file that is no SQLite database
DefaultDb == "kajovopasport.db"
DbPaths == {DefaultDb, "other.db", "notes.txt"}
\* Database(path) raises for these (sqlite3.DatabaseError: file is not a
\* database, from the PRAGMA of db.py line 33)
Unopenable == {"notes.txt"}
Opens(path) == path \notin Unopenable
\* database files that hold the schema and no row (what Database(path)
\* makes of a path that names no file yet)
NoFiles == [p \in DbPaths \ Unopenable |-> <<NoCards, {}>>]

\* no cell clicked, no menu posted, the default database open and named by
\* the settings
WindowIdle ==
    /\ last_clicked_field = ""
    /\ cell_menu = None
    /\ db = [path |-> DefaultDb, open |-> TRUE]
    /\ db_path = DefaultDb
    /\ files = NoFiles

\* no zoom compared, the default settings, nothing drawn, no card listed
\* or selected
BeyondIdle ==
    /\ zoomed = None
    /\ settings = DefaultSettings
    /\ grid = None
    /\ listed = {}
    /\ current_card = None
    /\ current_images = <<>>
    /\ WindowIdle

\* nothing composed or picked, no error box, an empty store
OutsideIdle ==
    /\ paste = None
    /\ picked = None
    /\ app_error = ""
    /\ cards = NoCards
    /\ images = {}
    /\ disk = <<NoCards, {}>>
    /\ clock = 0
    /\ call = NoCall
    /\ BeyondIdle

(* ------------------------- the editor session ------------------------- *)
\* the instance as __init__ lines 39-57 leave it once _build_ui and
\* _bind_events have run: identity transform, no drag, no pending handle,
\* and the first render queued by after(10, self._render) with its id kept
\* nowhere.  zoom_var is taken to exist and to hold the identity zoom (what
\* the constructor does about it is Construct, below).
Init ==
    /\ phase = "open"
    /\ attrs = SessionAttrs
    /\ \E se \in Sessions :
          /\ original = se[1]
          /\ out_size = se[2]
          /\ base_scale = BaseScale(se[1], se[2])
    /\ state = TransformState
    /\ zoom_var = R(1)
    /\ drag_start = None
    /\ pending_render = 0
    /\ timers = <<1>>
    /\ canvas = Unmapped
    /\ crop_rect = <<0, 0, 0, 0>>
    /\ preview_photo = None
    /\ result_png = None
    /\ rendered = None
    /\ batchN = 0
    /\ batchRenders = 0
    /\ last_op = <<"__init__">>
    /\ nops = 0
    /\ pointer_in = TRUE
    /\ OutsideIdle

Fixed == <<phase, attrs, original, out_size, base_scale>>

\* bookkeeping shared by the handlers that end in _schedule_render: k calls
\* of _schedule_render, one more mutation in the batch
Mutation(op, k) ==
    /\ phase = "open"
    /\ nops < MaxOps
    /\ LET s1 == ScheduleRender(pending_render, timers)
           s2 == IF k = 2 THEN ScheduleRender(s1[1], s1[2]) ELSE s1
       IN  /\ pending_render' = s2[1]
           /\ timers' = s2[2]
    /\ IF batchN = 0 \/ batchRenders > 0
       THEN batchN' = 1 /\ batchRenders' = 0
       ELSE batchN' = batchN + 1 /\ batchRenders' = batchRenders
    /\ nops' = nops + 1
    /\ last_op' = op
    /\ UNCHANGED Fixed
    /\ UNCHANGED <<crop_rect, preview_photo, result_png, rendered>>
    /\ UNCHANGED <<pointer_in, outside>>

\* <ButtonPress-1> on the canvas: the button goes down with the pointer over it
OnDragStart(x, y) ==
    /\ phase = "open"
    /\ pointer_in
    /\ drag_start' = DragCapture(x, y, state)
    /\ UNCHANGED Fixed
    /\ UNCHANGED <<state, zoom_var, pending_render, timers, canvas, crop_rect,
                   preview_photo, result_png, rendered, batchN, batchRenders, last_op, nops>>
    /\ UNCHANGED <<pointer_in, outside>>

\* <B1-Motion> on the canvas
OnDragMove(x, y) ==
    IF drag_start = None
    THEN /\ phase = "open"
         /\ UNCHANGED Fixed
         /\ UNCHANGED <<state, zoom_var, drag_start, pending_render, timers,
                        canvas, crop_rect, preview_photo, result_png, rendered,
                        batchN, batchRenders, last_op, nops>>
         /\ UNCHANGED <<pointer_in, outside>>
    ELSE /\ LET o == DragOffset(drag_start, x, y,
                                CropRectOr(attrs, crop_rect), out_size)
            IN  state' = [state EXCEPT !.offset_x = o[1], !.offset_y = o[2]]
         /\ Mutation(<<"_on_drag_move">>, 1)
         /\ UNCHANGED <<zoom_var, drag_start, canvas>>

\* <ButtonRelease-1> on the canvas
OnDragEnd ==
    /\ phase = "open"
    /\ drag_start' = None
    /\ UNCHANGED Fixed
    /\ UNCHANGED <<state, zoom_var, pending_render, timers, canvas, crop_rect,
                   preview_photo, result_png, rendered, batchN, batchRenders, last_op, nops>>
    /\ UNCHANGED <<pointer_in, outside>>

\* _zoom(factor), lines 251-256.  zoom_slider.set() is a widget command of
\* the ttk.Scale: the scale limits the value to its range, stores it in its
\* variable and invokes its command, _on_slider_change, with that value;
\* _schedule_render therefore runs twice.
Zoom(op, factor) ==
    /\ LET z == ZoomBy(state.zoom, factor)
           shown == ScaleSet(z)
       IN  /\ zoom_var' = shown
           /\ state' = [state EXCEPT !.zoom = SliderZoom(z, shown)]
    /\ Mutation(op, 2)
    /\ UNCHANGED <<drag_start, canvas>>

\* the zoom buttons (lines 94, 104) and <Button-4>/<Button-5> (lines 117-118)
OnZoomButton(f) == Zoom(<<"_zoom">>, f)

\* <MouseWheel>, lines 242-249
OnMouseWheel(delta) ==
    IF delta = 0
    THEN /\ phase = "open"
         /\ UNCHANGED Fixed
         /\ UNCHANGED <<state, zoom_var, drag_start, pending_render, timers,
                        canvas, crop_rect, preview_photo, result_png, rendered,
                        batchN, batchRenders, last_op, nops>>
         /\ UNCHANGED <<pointer_in, outside>>
    ELSE Zoom(<<"_on_mousewheel">>, WheelFactor(delta))

\* the slider's command, lines 122-128, handed any text; the scale shows
\* the position reported, within its range
OnSliderChange(text) ==
    IF text = BadText
    THEN /\ phase = "open"
         /\ UNCHANGED Fixed
         /\ UNCHANGED <<state, zoom_var, drag_start, pending_render, timers,
                        canvas, crop_rect, preview_photo, result_png, rendered,
                        batchN, batchRenders, last_op, nops>>
         /\ UNCHANGED <<pointer_in, outside>>
    ELSE /\ state' = [state EXCEPT !.zoom = SliderZoom(state.zoom, text)]
         /\ zoom_var' = ScaleSet(text)
         /\ Mutation(<<"_on_slider_change", text>>, 1)
         /\ UNCHANGED <<drag_start, canvas>>

\* the rotate buttons, lines 82-85 and 258-260
OnRotate(deg) ==
    /\ state' = [state EXCEPT !.angle_deg = Rotate(state.angle_deg, deg)]
    /\ Mutation(<<"_rotate", deg>>, 1)
    /\ UNCHANGED <<zoom_var, drag_start, canvas>>

\* mutant: a reset that puts back angle and offset but keeps the zoom
ResetKeepsZoom(st) == [TransformState EXCEPT !.zoom = st.zoom]

\* _reset line 263: a new TransformState(), whatever the state was
ResetState(st) == TransformState

\* the Reset button, lines 262-264
OnReset ==
    /\ state' = ResetState(state)
    /\ Mutation(<<"_reset">>, 1)
    /\ UNCHANGED <<zoom_var, drag_start, canvas>>

\* <Configure> on the window, line 120: the canvas has a new size
OnConfigure(size) ==
    /\ canvas' = size
    /\ Mutation(<<"<Configure>">>, 1)
    /\ UNCHANGED <<state, zoom_var, drag_start>>

\* the oldest outstanding after() callback fires: _render, lines 135-182.
\* Callbacks fire in the order they fall due: the constructor's (10 ms) is
\* due before any that _schedule_render queues later (30 ms each).
FireRender ==
    /\ phase = "open"
    /\ timers # <<>>
    /\ LET c == RenderCancel(pending_render, Tail(timers))
           size == CropSize(canvas, out_size)
       IN  /\ pending_render' = c[1]
           /\ timers' = c[2]
           /\ crop_rect' = CropRect(canvas, out_size)
           /\ attrs' = attrs \cup {"crop_rect"}
           /\ rendered' = <<state>>
           \* resize() to an empty size raises, and the photo stays as it was
           /\ preview_photo' = IF size[1] >= 1 /\ size[2] >= 1
                               THEN <<state, size[1], size[2]>>
                               ELSE preview_photo
    /\ batchRenders' = IF batchN > 0 THEN batchRenders + 1 ELSE 0
    /\ UNCHANGED <<phase, original, out_size, base_scale>>
    /\ UNCHANGED <<state, zoom_var, drag_start, canvas, result_png, batchN, last_op, nops>>
    /\ UNCHANGED <<pointer_in, outside>>

\* mutant: destroy() moved to a finally clause, so a failed save closes too
SaveOutcomeFinally(ok, st, res) ==
    IF ok THEN <<"closed", <<st>>>> ELSE <<"closed", res>>

\* mutant: Save encodes what the latest _render composed for the preview
SaveOutcomePreview(ok, st, res) ==
    IF ok THEN <<"closed", IF rendered = None THEN <<st>> ELSE rendered>>
    ELSE <<"open", res>>

\* _on_save lines 267-274: <<phase, _result_png>> afterwards.  The result is
\* assigned and the window destroyed only once rendering and encoding are
\* through; an exception skips both.
SaveOutcome(ok, st, res) ==
    IF ok THEN <<"closed", <<st>>>> ELSE <<"open", res>>

\* the Save button, lines 266-274: the final render and encoding either
\* succeed, or raise and are reported by a message box.  destroy() takes the
\* window's outstanding callbacks with it.
OnSave(ok) ==
    /\ phase = "open"
    /\ LET o == SaveOutcome(ok, state, result_png)
       IN  /\ phase' = o[1]
           /\ result_png' = o[2]
           /\ timers' = IF o[1] = "closed" THEN <<>> ELSE timers
    /\ last_op' = IF ok THEN last_op ELSE <<"_on_save", "showerror">>
    /\ UNCHANGED <<attrs, original, out_size, base_scale>>
    /\ UNCHANGED <<state, zoom_var, drag_start, pending_render, canvas, crop_rect,
                   preview_photo, rendered, batchN, batchRenders, nops>>
    /\ UNCHANGED <<pointer_in, outside>>

\* mutant: the Cancel button wired to what Save stores
CancelAsSave(st) == <<st>>

\* _on_cancel line 277: self._result_png = None
CancelResult(st) == None

\* the Cancel button and WM_DELETE_WINDOW, lines 276-278
OnCancel ==
    /\ phase = "open"
    /\ result_png' = CancelResult(state)
    /\ phase' = "closed"
    /\ timers' = <<>>
    /\ UNCHANGED <<attrs, original, out_size, base_scale>>
    /\ UNCHANGED <<state, zoom_var, drag_start, pending_render, canvas, crop_rect,
                   preview_photo, rendered, batchN, batchRenders, last_op, nops>>
    /\ UNCHANGED <<pointer_in, outside>>

\* the zoom buttons' factors 1.2 and 1 / 1.2 (<Button-4>/<Button-5> use the
\* factors of one wheel notch)
ZoomFactors == {<<6, 5>>, <<5, 6>>}

Next ==
    \/ \E xy \in PressXY : OnDragStart(xy[1], xy[2])
    \/ \E xy \in PointerXY : OnDragMove(xy[1], xy[2])
    \/ OnDragEnd
    \/ \E f \in ZoomFactors : OnZoomButton(f)
    \/ \E d \in WheelDeltas : OnMouseWheel(d)
    \/ \E t \in SliderTexts : OnSliderChange(t)
    \/ \E d \in RotateDegs : OnRotate(d)
    \/ OnReset
    \/ \E size \in CanvasSizes : OnConfigure(size)
    \/ FireRender
    \/ \E ok \in BOOLEAN : OnSave(ok)
    \/ OnCancel

Spec == Init /\ [][Next]_vars

SpecLive == Init /\ [][Next]_vars /\ WF_vars(FireRender)

(* ----------------------- the pointer and the canvas ------------------- *)
\* the pointer crosses the canvas border, <Leave> / <Enter>.  _bind_events
\* (lines 109-120) binds neither, so no handler runs: no field changes.
OnLeave ==
    /\ phase = "open"
    /\ pointer_in
    /\ pointer_in' = FALSE
    /\ UNCHANGED Fixed
    /\ UNCHANGED <<state, zoom_var, drag_start, pending_render, timers, canvas,
                   crop_rect, preview_photo, result_png, rendered, batchN,
                   batchRenders, last_op, nops, outside>>

OnEnter ==
    /\ phase = "open"
    /\ ~pointer_in
    /\ pointer_in' = TRUE
    /\ UNCHANGED Fixed
    /\ UNCHANGED <<state, zoom_var, drag_start, pending_render, timers, canvas,
                   crop_rect, preview_photo, result_png, rendered, batchN,
                   batchRenders, last_op, nops, outside>>

NextPointer == Next \/ OnLeave \/ OnEnter

\* Spec with the pointer free to leave and re-enter the canvas
SpecPointer == Init /\ [][NextPointer]_vars

(* --------------------------- the compositor --------------------------- *)
\* largest side of the source images and of the output sizes composed
MaxSrc == 8
MaxOut == 8
CoverSources == {<<w, h>> : w \in 1..MaxSrc, h \in 1..MaxSrc}
CoverOutSizes == {<<w, h>> : w \in 1..MaxOut, h \in 1..MaxOut}
\* the angles for which rotate(expand=True) is a transposition
RightAngles == {0, 90, 180, 270}

\* _render_output_image lines 189-211: <<sw, sh, rw, rh, left, top>>, the
\* size of the scaled source, its size once rotated and where it is pasted
Composite(src, out, bs, st) ==
    LET total_scale == RMul(bs, st.zoom)
        w == RMul(R(src[1]), total_scale)
        h == RMul(R(src[2]), total_scale)
        sw == IMax(1, RoundHalfEven(w[1], w[2]))
        sh == IMax(1, RoundHalfEven(h[1], h[2]))
        angle == st.angle_deg % 360
        rw == IF angle \in {90, 270} THEN sh ELSE sw
        rh == IF angle \in {90, 270} THEN sw ELSE sh
        cx == RAdd(Rat(out[1], 2), st.offset_x)
        cy == RAdd(Rat(out[2], 2), st.offset_y)
        l == RAdd(cx, Rat(-rw, 2))
        t == RAdd(cy, Rat(-rh, 2))
    IN  <<sw, sh, rw, rh, RoundHalfEven(l[1], l[2]), RoundHalfEven(t[1], t[2])>>

\* a session for each source size, output size and right angle
InitCover ==
    /\ phase = "open"
    /\ attrs = SessionAttrs
    /\ \E src \in CoverSources, out \in CoverOutSizes, a \in RightAngles :
          /\ original = src
          /\ out_size = out
          /\ base_scale = BaseScale(src, out)
          /\ state = [TransformState EXCEPT !.angle_deg = a]
    /\ zoom_var = R(1)
    /\ drag_start = None
    /\ pending_render = 0
    /\ timers = <<1>>
    /\ canvas = Unmapped
    /\ crop_rect = <<0, 0, 0, 0>>
    /\ preview_photo = None
    /\ result_png = None
    /\ rendered = None
    /\ batchN = 0
    /\ batchRenders = 0
    /\ last_op = <<"__init__">>
    /\ nops = 0
    /\ pointer_in = TRUE
    /\ OutsideIdle

\* _render_output_image, as _render and _on_save call it
RenderOutputImage ==
    /\ phase = "open"
    /\ state.angle_deg % 360 \in RightAngles
    /\ paste' = Composite(original, out_size, base_scale, state)
    /\ UNCHANGED Fixed
    /\ UNCHANGED <<state, zoom_var, drag_start, pending_render, timers, canvas,
                   crop_rect, preview_photo, result_png, rendered, batchN,
                   batchRenders, last_op, nops, pointer_in>>
    /\ UNCHANGED <<picked, app_error, cards, images, disk, clock, call, beyond>>

NextCover == RenderOutputImage

SpecCover == InitCover /\ [][NextCover]_vars

(* -------------------------- zoom composition -------------------------- *)
\* the zooms the slider is moved to before the buttons are used, and the
\* factors handed to _zoom: the buttons' 1.2 and 1 / 1.2, one wheel notch
\* each way, and 2 and 1 / 2
ZoomStarts == {<<3, 10>>, <<1, 2>>, R(1), R(4), <<9, 2>>, R(5)}
ZoomSteps == {<<6, 5>>, <<5, 6>>, <<11, 10>>, <<10, 11>>, R(2), <<1, 2>>}

\* _zoom lines 251-256: state.zoom once the handler has returned.  Line 252
\* stores ZoomBy(z, f); zoom_slider.set (line 255) limits that to the
\* scale's range and invokes _on_slider_change, which stores the limited
\* value (line 127).
ZoomResult(z, f) == SliderZoom(ZoomBy(z, f), ScaleSet(ZoomBy(z, f)))

\* _zoom(f1) followed by _zoom(f2), set against what _zoom(f1 * f2) gives
\* from the same zoom; the session goes on from the former
ZoomTwice(f1, f2) ==
    /\ phase = "open"
    /\ zoomed = None
    /\ LET z == state.zoom
           mid == ZoomResult(z, f1)
           two == ZoomResult(mid, f2)
           s == ScheduleRender(pending_render, timers)
       IN  /\ zoomed' = [z |-> z, f1 |-> f1, f2 |-> f2, mid |-> mid,
                         two |-> two, one |-> ZoomResult(z, RMul(f1, f2))]
           /\ state' = [state EXCEPT !.zoom = two]
           /\ zoom_var' = ScaleSet(ZoomBy(mid, f2))
           /\ pending_render' = s[1]
           /\ timers' = s[2]
    /\ last_op' = <<"_zoom", f2>>
    /\ UNCHANGED Fixed
    /\ UNCHANGED <<drag_start, canvas, crop_rect, preview_photo, result_png,
                   rendered, batchN, batchRenders, nops, pointer_in>>
    /\ UNCHANGED <<paste, picked, app_error, cards, images, disk, clock, call>>
    /\ UNCHANGED <<settings, grid, listed, current_card, current_images>>
    /\ UNCHANGED window

NextZoom ==
    \/ \E z \in ZoomStarts : OnSliderChange(z)
    \/ \E f1 \in ZoomSteps, f2 \in ZoomSteps : ZoomTwice(f1, f2)

SpecZoom == Init /\ [][NextZoom]_vars

(* --------------------------- the constructor -------------------------- *)
\* largest side of the source images handed to the constructor
MaxSide == 5
OpenSources == {<<w, h>> : w \in 1..MaxSide, h \in 1..MaxSide}
OpenOutSizes == {<<3, 4>>, <<4, 6>>, <<6, 8>>, <<8, 12>>}

\* before edit_image_dialog is called: no instance, no attribute
NoEditor ==
    /\ phase = "new"
    /\ attrs = {}
    /\ original = None
    /\ out_size = None
    /\ base_scale = None
    /\ state = None
    /\ zoom_var = None
    /\ drag_start = None
    /\ pending_render = 0
    /\ timers = <<>>
    /\ canvas = Unmapped
    /\ crop_rect = <<0, 0, 0, 0>>
    /\ preview_photo = None
    /\ result_png = None
    /\ rendered = None
    /\ batchN = 0
    /\ batchRenders = 0
    /\ last_op = <<"new">>
    /\ nops = 0
    /\ pointer_in = TRUE

InitOpen == NoEditor /\ OutsideIdle

\* edit_image_dialog line 285 -> ImageEditor.__init__, lines 30-57.
\* Lines 39-49 assign the fields; _build_ui creates the canvas (line 68) and
\* then evaluates self.zoom_var (line 100) to build the scale: an attribute
\* nothing has assigned raises AttributeError out of the constructor, with
\* the Toplevel already created and lines 52-57 never reached.
Construct(img, out) ==
    /\ phase = "new"
    /\ original' = img
    /\ out_size' = out
    /\ base_scale' = BaseScale(img, out)
    /\ state' = TransformState
    /\ drag_start' = None
    /\ pending_render' = 0
    /\ preview_photo' = None
    /\ LET at == attrs \cup FieldAttrs \cup {"canvas"}
       IN  IF "zoom_var" \in at
           THEN /\ attrs' = at \cup {"zoom_slider", "_result_png"}
                /\ phase' = "open"
                /\ timers' = <<1>>
                /\ zoom_var' = R(1)
           ELSE /\ attrs' = at
                /\ phase' = "failed"
                /\ timers' = <<>>
                /\ zoom_var' = None
    /\ result_png' = None
    /\ last_op' = <<"__init__">>
    /\ UNCHANGED <<canvas, crop_rect, rendered, batchN, batchRenders, nops>>
    /\ UNCHANGED <<pointer_in, outside>>

NextOpen == \E img \in OpenSources, out \in OpenOutSizes : Construct(img, out)

SpecOpen == InitOpen /\ [][NextOpen]_vars

(* ----------------------- selecting a source file --------------------- *)
\* the files the file dialog can return.  "unidentified": no decoder accepts
\* the header.  "truncated": the header is fine, the pixel data is not, which
\* shows when the image is loaded, not when it is opened.  "image": a file
\* that decodes, to the size given (a zero side included).
Files ==
    {[kind |-> "unidentified", size |-> None]}
    \cup {[kind |-> "truncated", size |-> <<w, h>>] :
              w \in 1..MaxSide, h \in 1..MaxSide}
    \cup {[kind |-> "image", size |-> <<w, h>>] :
              w \in 0..MaxSide, h \in 0..MaxSide}

ZeroSided(f) == f.kind = "image" /\ (f.size[1] = 0 \/ f.size[2] = 0)

\* Image.open(path), app.py line 633: whether it returns an image.  It reads
\* the header only; whether a header with a zero side is turned down
\* depends on the decoder library (lenient: it is not).
ImageOpen(f, lenient) ==
    /\ f.kind # "unidentified"
    /\ ZeroSided(f) => lenient

\* _select_image_for_field lines 622-636: the file is chosen and opened; a
\* failure of Image.open is shown in an error box and the handler returns
SelectFile(f, lenient) ==
    /\ phase = "new"
    /\ picked = None
    /\ picked' = f
    /\ app_error' = IF ImageOpen(f, lenient) THEN ""
                    ELSE "Chyba"
    /\ UNCHANGED Fixed
    /\ UNCHANGED <<state, zoom_var, drag_start, pending_render, timers, canvas,
                   crop_rect, preview_photo, result_png, rendered, batchN,
                   batchRenders, last_op, nops, pointer_in>>
    /\ UNCHANGED <<paste, cards, images, disk, clock, call, beyond>>

\* _select_image_for_field lines 638-639, outside any try: edit_image_dialog
\* builds the ImageEditor.  __init__ creates the Toplevel (lines 31-37), then
\* loads the pixels with convert("RGBA") (line 39), which raises for a
\* truncated file before any field is assigned; otherwise it goes on as
\* Construct does.  Either exception leaves the handler through line 639, so
\* lines 640-649 (set_image) are not reached.
EditImageDialog(out) ==
    /\ picked # None
    /\ app_error = ""
    /\ IF picked.kind = "truncated"
       THEN /\ phase = "new"
            /\ phase' = "failed"
            /\ last_op' = <<"__init__">>
            /\ UNCHANGED <<attrs, original, out_size, base_scale>>
            /\ UNCHANGED <<state, zoom_var, drag_start, pending_render, timers,
                           canvas, crop_rect, preview_photo, result_png,
                           rendered, batchN, batchRenders, nops>>
            /\ UNCHANGED <<pointer_in, outside>>
       ELSE Construct(picked.size, out)

NextSelect ==
    \/ \E f \in Files, lenient \in BOOLEAN : SelectFile(f, lenient)
    \/ \E out \in OpenOutSizes : EditImageDialog(out)

SpecSelect == InitOpen /\ [][NextSelect]_vars

(* ------------------------------ settings ------------------------------ *)
\* a part of a text that int() rejects, and the empty text
BadPart == <<>>
EmptyText == <<>>
\* the ratios the dialog's combobox offers, line 75
ComboValues == {<<<<2>>, <<3>>>>, <<<<3>>, <<4>>>>, <<<<4>>, <<5>>>>}
\* what a settings file may hold as "aspect_ratio": the offered ratios, a
\* zero or negative side, text without a colon, text that is no number
AspectTexts ==
    ComboValues \cup {<<<<0>>, <<3>>>>, <<<<3>>, <<0>>>>, <<<<-2>>, <<3>>>>,
                      <<<<2>>>>, <<BadPart, <<3>>>>, EmptyText}
\* a width as text, in the settings file or typed into the spinbox
WidthTexts == {BadPart, <<-400>>, <<0>>, <<1>>, <<400>>, <<800>>, <<2400>>}
\* settings.json: missing or unreadable (None), or its two entries
SettingsFiles ==
    {None} \cup {[aspect_ratio |-> a, output_width_px |-> w] :
                     a \in AspectTexts, w \in WidthTexts}

\* Settings.aspect_tuple, lines 36-42: two parts that int() reads, else (2, 3)
AspectTuple(text) ==
    IF Len(text) = 2 /\ text[1] # BadPart /\ text[2] # BadPart
    THEN <<text[1][1], text[2][1]>>
    ELSE <<2, 3>>

ZeroDivisionError == <<"ZeroDivisionError">>

\* Settings.output_size, lines 44-49: h / w raises for w = 0; otherwise
\* <<out_w, int(round(out_w * (h / w)))>>
OutputSize(s) ==
    LET a == AspectTuple(s.aspect_ratio)
        w == a[1]
        h == a[2]
        out_w == s.output_width_px
    IN  IF w = 0 THEN ZeroDivisionError
        ELSE IF w > 0 THEN <<out_w, RoundHalfEven(out_w * h, w)>>
        ELSE <<out_w, RoundHalfEven(-(out_w * h), -w)>>

\* load_settings, lines 56-69: the file's entries, whatever they are, or
\* the defaults when the file is missing or an entry cannot be converted
LoadSettings(file) ==
    IF file = None THEN DefaultSettings
    ELSE IF file.output_width_px = BadPart THEN DefaultSettings
    ELSE [aspect_ratio |-> file.aspect_ratio,
          output_width_px |-> file.output_width_px[1]]

\* App.__init__ line 148: the settings are loaded; no editor is open
InitSettings ==
    /\ NoEditor
    /\ paste = None
    /\ picked = None
    /\ app_error = ""
    /\ cards = NoCards
    /\ images = {}
    /\ disk = <<NoCards, {}>>
    /\ clock = 0
    /\ call = NoCall
    /\ zoomed = None
    /\ \E file \in SettingsFiles : settings = LoadSettings(file)
    /\ grid = None
    /\ listed = {}
    /\ current_card = None
    /\ current_images = <<>>
    /\ WindowIdle

\* on_settings lines 378-391 with SettingsDialog._on_ok, lines 99-106: the
\* ratio is the combobox's (one of its values, or the one it was opened
\* with), the width whatever the spinbox's text is.  IntVar.get() raises
\* for text that is no number, and the dialog stays as it is.
OnSettings(ratio, width) ==
    /\ phase = "new"
    /\ ratio \in ComboValues \cup {settings.aspect_ratio}
    /\ settings' = IF width = BadPart THEN settings
                   ELSE [aspect_ratio |-> IF ratio = EmptyText
                                          THEN <<<<2>>, <<3>>>> ELSE ratio,
                         output_width_px |-> width[1]]
    /\ UNCHANGED <<phase, attrs, original, out_size, base_scale, state,
                   zoom_var, drag_start, pending_render, timers, canvas,
                   crop_rect, preview_photo, result_png, rendered, batchN,
                   batchRenders, last_op, nops, pointer_in>>
    /\ UNCHANGED <<paste, picked, app_error, cards, images, disk, clock, call>>
    /\ UNCHANGED <<zoomed, grid, listed, current_card, current_images>>
    /\ UNCHANGED window

\* _select_image_for_field lines 638-639, outside any try: the output size
\* is taken from the settings and the editor is built for it (Construct).
\* An exception of output_size leaves the handler before the editor exists.
OpenEditor(img) ==
    LET o == OutputSize(settings)
    IN  IF o = ZeroDivisionError
        THEN /\ phase = "new"
             /\ last_op # <<"output_size", "ZeroDivisionError">>
             /\ last_op' = <<"output_size", "ZeroDivisionError">>
             /\ UNCHANGED <<phase, attrs, original, out_size, base_scale>>
             /\ UNCHANGED <<state, zoom_var, drag_start, pending_render,
                            timers, canvas, crop_rect, preview_photo,
                            result_png, rendered, batchN, batchRenders, nops>>
             /\ UNCHANGED <<pointer_in, outside>>
        ELSE Construct(img, o)

NextSettings ==
    \/ \E r \in AspectTexts, w \in WidthTexts : OnSettings(r, w)
    \/ \E img \in {<<4, 3>>} : OpenEditor(img)

SpecSettings == InitSettings /\ [][NextSettings]_vars

(* --------------------------- the two renderers ------------------------ *)
\* the keys of FIELDS, app.py lines 23-40, in the order of the list
FIELDS ==
    <<"skrin", "satna", "stolek", "okno_obyvak", "tv", "svetla_obyvak",
      "postel_1", "postel_2", "postel_3", "okno_koupelna", "wc", "umyvadlo",
      "sprcha", "koupelna_svetla", "dvere_vchod", "dvere_koupelna">>
\* cols = rows = 4, app.py lines 525-526 and pdf_utils lines 67-68
cols == 4

\* the bytes a slot may hold: empty bytes, bytes no decoder identifies,
\* a PNG whose header reads but whose pixel data is cut short, and PNGs
\* that decode to the size given
MaxThumb == 7
SlotBlobs ==
    {[kind |-> "empty", size |-> None], [kind |-> "unidentified", size |-> None],
     [kind |-> "truncated", size |-> <<4, 6>>]}
    \cup {[kind |-> "png", size |-> sz] :
              sz \in {<<1, 1>>, <<4, 6>>, <<MaxThumb, 2>>, <<1, 200>>}}
\* the slots given bytes in the mappings drawn: a corner, an inner cell and
\* the last cell
FilledSlots == {"skrin", "svetla_obyvak", "dvere_koupelna"}
SlotMappings ==
    UNION {[ks -> SlotBlobs] : ks \in SUBSET FilledSlots}
\* sizes of the preview canvas: not yet mapped, a small window, the window
\* as it opens, a wide one
PreviewSizes == {<<1, 1>>, <<200, 200>>, <<640, 700>>, <<1200, 600>>}

\* "if png_bytes:" / "if png:": a slot is drawn from when the mapping has
\* bytes for it and they are not empty
HasBytes(im, k) == k \in DOMAIN im /\ im[k].kind # "empty"

\* mutant: the size is read from the header and the pixels are never loaded
ScreenDecodeHeader(b) == IF b.kind \in {"png", "truncated"} THEN b.size ELSE None

\* app.py line 560, Image.open(...).convert("RGBA"): the decoded size, or
\* None when either call raises (open for bytes no decoder identifies,
\* convert for pixel data cut short)
ScreenDecode(b) == IF b.kind = "png" THEN b.size ELSE None

\* pdf_utils lines 107-115: ImageReader raises for bytes no decoder
\* identifies; getSize reads the header; drawImage loads the pixels and
\* raises for data cut short, before anything is written to the page
PdfDecode(b) ==
    IF b.kind = "unidentified" THEN None
    ELSE IF b.kind = "truncated" THEN None
    ELSE b.size

\* mutant: no try around the decoding, so that the exception of one cell
\* ends the loop and the cells after it are not drawn
ExceptRaise(raw, idx) == \A j \in 0..(idx - 1) : ~raw[j].raised

\* app.py lines 573-574 and pdf_utils lines 116-118, "except Exception:
\* pass": whether the loop reaches the cell idx, given the cells as they
\* would be drawn
ExceptPass(raw, idx) == TRUE

\* mutant: the larger of the two ratios, which fills the area and crops
ThumbScaleFill(tw, th, iw, ih) == RMax(Rat(tw, iw), Rat(th, ih))

\* app.py line 564 and pdf_utils line 111: min(tw / iw, th / ih)
ThumbScale(tw, th, iw, ih) == RMin(Rat(tw, iw), Rat(th, ih))

\* app.py lines 561-572: <<cx, cy, nw, nh>>, where the thumbnail of an
\* image of the size given is put (anchor "nw") and its size
ScreenThumb(x0, y0, x1, y1, size) ==
    LET tw == IMax(1, x1 - x0)
        th == IMax(1, y1 - y0)
        scale == ThumbScale(tw, th, size[1], size[2])
        w == RMul(R(size[1]), scale)
        h == RMul(R(size[2]), scale)
        nw == IMax(1, RoundHalfEven(w[1], w[2]))
        nh == IMax(1, RoundHalfEven(h[1], h[2]))
    IN  <<x0 + (tw - nw) \div 2, y0 + (th - nh) \div 2, nw, nh>>

\* render_preview lines 480-533: the page and grid geometry for a canvas
ScreenLayout(cv) ==
    LET cw == IMax(1, cv[1])
        ch == IMax(1, cv[2])
        avail_w == IMax(1, cw - 2 * pad)
        avail_h == IMax(1, ch - 2 * pad)
        pw0 == RoundHalfEven(avail_h * 210, 297)
        page_w == IF pw0 > avail_w THEN avail_w ELSE pw0
        page_h == IF pw0 > avail_w THEN RoundHalfEven(page_w * 297, 210)
                  ELSE avail_h
        px0 == (cw - page_w) \div 2
        py0 == (ch - page_h) \div 2
        margin == IMax(8, RoundHalfEven(page_w * 3, 100))
        ix0 == px0 + margin
        iy0 == py0 + margin
        ix1 == px0 + page_w - margin
        iy1 == py0 + page_h - margin
        grid_top == iy0 + 30 + 6
        grid_h == IMax(1, iy1 - grid_top)
        grid_w == IMax(1, ix1 - ix0)
        gap == IMax(6, RoundHalfEven(page_w * 15, 1000))
        cell_w == (grid_w - gap * (cols - 1)) \div cols
        cell_h == (grid_h - gap * (cols - 1)) \div cols
        label_h == IMax(16, IF cell_h >= 0 THEN (cell_h * 18) \div 100 ELSE 0)
    IN  [ix0 |-> ix0, grid_top |-> grid_top, gap |-> gap, cell_w |-> cell_w,
         cell_h |-> cell_h, label_h |-> label_h, img_pad |-> 6]

\* render_preview lines 536-576, one pass of the loop: the cell of FIELDS[idx + 1]
ScreenCell(g, im, idx) ==
    LET k == FIELDS[idx + 1]
        r == idx \div cols
        col == idx % cols
        x == g.ix0 + col * (g.cell_w + g.gap)
        y == g.grid_top + r * (g.cell_h + g.gap)
        x2 == x + g.cell_w
        y2 == y + g.cell_h
        img_x0 == x + g.img_pad
        img_y0 == y + g.img_pad
        img_x1 == x2 - g.img_pad
        img_y1 == y2 - g.label_h - g.img_pad
        size == IF HasBytes(im, k) THEN ScreenDecode(im[k]) ELSE None
    IN  [key |-> k,
         box |-> <<x, y, x2, y2>>,
         label |-> <<x, y2 - g.label_h, x2, y2>>,
         area |-> <<img_x0, img_y0, img_x1, img_y1>>,
         raised |-> HasBytes(im, k) /\ size = None,
         thumb |-> IF size = None THEN None
                   ELSE ScreenThumb(img_x0, img_y0, img_x1, img_y1, size)]

\* render_preview: the cells drawn, idx = 0 .. 15 (None: not drawn);
\* without a current card the mapping is empty (line 535)
RenderPreviewCells(cv, card, im) ==
    LET g == ScreenLayout(cv)
        shown == IF card # None THEN im ELSE <<>>
        raw == [idx \in 0..(Len(FIELDS) - 1) |-> ScreenCell(g, shown, idx)]
    IN  [idx \in 0..(Len(FIELDS) - 1) |->
             IF ExceptPass(raw, idx) THEN raw[idx] ELSE None]

\* generate_card_pdf lines 46-78, in quarters of a millimetre (1 mm is
\* 72 / 25.4 points, a factor common to every length of the page): A4 is
\* 210 x 297 mm, margin 5 mm, title 18 mm, gap 2 mm, label 9 mm, pad 1.5 mm
PdfLayout ==
    LET page_w == 4 * 210
        page_h == 4 * 297
        margin == 4 * 5
        title_h == 4 * 18
        gap == 4 * 2
        grid_top == page_h - margin - title_h
        grid_h == grid_top - margin
        grid_w == page_w - 2 * margin
    IN  [margin |-> margin, grid_top |-> grid_top, gap |-> gap,
         cell_w |-> (grid_w - gap * (cols - 1)) \div cols,
         cell_h |-> (grid_h - gap * (cols - 1)) \div cols,
         label_h |-> 4 * 9, img_pad |-> 6]

\* mutant: rows counted from the bottom edge of the grid upwards
PdfCellYUp(g, r) == g.margin + r * (g.cell_h + g.gap)

\* pdf_utils line 85: the cell's lower edge; the page's y axis points up
PdfCellY(g, r) == g.grid_top - (r + 1) * g.cell_h - r * g.gap

\* pdf_utils lines 110-115: <<dx, dy, dw, dh>>, as rationals
PdfThumb(img_x, img_y, img_w, img_h, size) ==
    LET scale == ThumbScale(img_w, img_h, size[1], size[2])
        dw == RMul(R(size[1]), scale)
        dh == RMul(R(size[2]), scale)
    IN  <<RAdd(R(img_x), RMul(RAdd(R(img_w), <<-dw[1], dw[2]>>), <<1, 2>>)),
          RAdd(R(img_y), RMul(RAdd(R(img_h), <<-dh[1], dh[2]>>), <<1, 2>>)),
          dw, dh>>

\* generate_card_pdf lines 81-118, one pass of the loop
PdfCell(g, im, idx) ==
    LET k == FIELDS[idx + 1]
        r == idx \div cols
        col == idx % cols
        x == g.margin + col * (g.cell_w + g.gap)
        y == PdfCellY(g, r)
        img_x == x + g.img_pad
        img_y == y + g.label_h
        img_w == g.cell_w - 2 * g.img_pad
        img_h == g.cell_h - g.label_h - g.img_pad
        size == IF HasBytes(im, k) THEN PdfDecode(im[k]) ELSE None
    IN  [key |-> k,
         box |-> <<x, y, x + g.cell_w, y + g.cell_h>>,
         label |-> <<x, y, x + g.cell_w, y + g.label_h>>,
         area |-> <<img_x, img_y, img_x + img_w, img_y + img_h>>,
         raised |-> HasBytes(im, k) /\ size = None,
         thumb |-> IF size = None THEN None
                   ELSE PdfThumb(img_x, img_y, img_w, img_h, size)]

\* generate_card_pdf: the cells drawn for the mapping handed in
GenerateCardPdfCells(im) ==
    LET raw == [idx \in 0..(Len(FIELDS) - 1) |-> PdfCell(PdfLayout, im, idx)]
    IN  [idx \in 0..(Len(FIELDS) - 1) |->
             IF ExceptPass(raw, idx) THEN raw[idx] ELSE None]

\* a card is selected, its slots hold one of the mappings, and the preview
\* has been drawn once on the canvas before it is mapped (select_first_card,
\* line 277)
InitGrid ==
    /\ NoEditor
    /\ paste = None
    /\ picked = None
    /\ app_error = ""
    /\ cards = NoCards
    /\ images = {}
    /\ disk = <<NoCards, {}>>
    /\ clock = 0
    /\ call = NoCall
    /\ zoomed = None
    /\ settings = DefaultSettings
    /\ listed = {}
    /\ current_card = [id |-> 1, name |-> "A", created_at |-> 0, updated_at |-> 0]
    /\ current_images \in SlotMappings
    /\ grid = [cv |-> <<1, 1>>,
               screen |-> RenderPreviewCells(<<1, 1>>, current_card, current_images),
               pdf |-> None]
    /\ WindowIdle

\* <Configure> on the preview canvas, line 260: render_preview for the size
\* (what it drew is recorded where the record was started, InitGrid), which
\* forgets the clicked cell (line 486)
OnPreviewConfigure(size) ==
    /\ grid' = IF grid = None THEN None
               ELSE [grid EXCEPT !.cv = size,
                                 !.screen = RenderPreviewCells(size, current_card,
                                                               current_images)]
    /\ UNCHANGED <<phase, attrs, original, out_size, base_scale, state,
                   zoom_var, drag_start, pending_render, timers, canvas,
                   crop_rect, preview_photo, result_png, rendered, batchN,
                   batchRenders, last_op, nops, pointer_in>>
    /\ UNCHANGED <<paste, picked, app_error, cards, images, disk, clock, call>>
    /\ UNCHANGED <<zoomed, settings, listed, current_card, current_images>>
    /\ last_clicked_field' = ""
    /\ UNCHANGED <<cell_menu, db, db_path, files>>

\* on_pdf / on_print, lines 445-470: generate_card_pdf for the card's
\* mapping (read from the store; here the one the preview shows)
OnPdf ==
    /\ grid # None
    /\ current_card # None
    /\ grid' = [grid EXCEPT !.pdf = GenerateCardPdfCells(current_images)]
    /\ UNCHANGED <<phase, attrs, original, out_size, base_scale, state,
                   zoom_var, drag_start, pending_render, timers, canvas,
                   crop_rect, preview_photo, result_png, rendered, batchN,
                   batchRenders, last_op, nops, pointer_in>>
    /\ UNCHANGED <<paste, picked, app_error, cards, images, disk, clock, call>>
    /\ UNCHANGED <<zoomed, settings, listed, current_card, current_images>>
    /\ UNCHANGED window

NextGrid ==
    \/ \E size \in PreviewSizes : OnPreviewConfigure(size)
    \/ OnPdf

SpecGrid == InitGrid /\ [][NextGrid]_vars

(* ----------------------------- the card store ------------------------- *)
\* cards created, seconds of clock time and store calls explored
MaxCards == 2
MaxClock == 1
MaxCalls == 2
Names == {"A", "B"}
FieldKeys == {"f1", "f2"}
Blobs == {"png1", "png2"}

\* the database files opened: a new one, and one that earlier runs left
\* with two cards, card 1 with both slots filled and card 2 with one
StoreSeeds ==
    {<<NoCards, {}>>,
     <<[rows |-> {[id |-> 1, name |-> "A", created_at |-> 0, updated_at |-> 0],
                  [id |-> 2, name |-> "B", created_at |-> 0, updated_at |-> 0]},
        seq |-> 2],
       {[card_id |-> 1, field_key |-> "f1", png |-> "png1", updated_at |-> 0],
        [card_id |-> 1, field_key |-> "f2", png |-> "png1", updated_at |-> 0],
        [card_id |-> 2, field_key |-> "f1", png |-> "png2", updated_at |-> 0]}>>}

\* everything but the store
session == <<phase, attrs, original, out_size, base_scale, state, zoom_var,
             drag_start, pending_render, timers, canvas, crop_rect,
             preview_photo, result_png, rendered, batchN, batchRenders,
             last_op, nops, pointer_in, paste, picked, app_error, beyond>>

HasCard(cs, id) == \E r \in cs.rows : r.id = id

\* list_cards, lines 64-66: the ids listed (the order by name is left out)
ListCards(cs) == {r.id : r \in cs.rows}

\* mutant: rows with a NULL png are returned as well
GetImagesWithNull(im, id) ==
    LET mine == {r \in im : r.card_id = id}
    IN  [k \in {r.field_key : r \in mine} |->
            (CHOOSE r \in mine : r.field_key = k).png]

\* get_images_for_card, lines 89-95: a mapping field_key -> bytes of the
\* card's rows whose png is not NULL
GetImagesForCard(im, id) ==
    LET mine == {r \in im : r.card_id = id /\ r.png # NULL}
    IN  [k \in {r.field_key : r \in mine} |->
            (CHOOSE r \in mine : r.field_key = k).png]

\* mutant: a plain INSERT into a table without the primary key
UpsertAppend(im, id, k, b, ts) ==
    im \cup {[card_id |-> id, field_key |-> k, png |-> b, updated_at |-> ts]}

\* set_image lines 107-114: INSERT ... ON CONFLICT(card_id, field_key) DO
\* UPDATE SET png, updated_at (primary key: lines 53-57)
Upsert(im, id, k, b, ts) ==
    {r \in im : ~(r.card_id = id /\ r.field_key = k)}
    \cup {[card_id |-> id, field_key |-> k, png |-> b, updated_at |-> ts]}

\* touch_card line 86: UPDATE cards SET updated_at=? WHERE id=?
Touch(cs, id, ts) ==
    [cs EXCEPT !.rows = {IF r.id = id THEN [r EXCEPT !.updated_at = ts] ELSE r :
                            r \in cs.rows}]

\* mutant: the delete with foreign keys not enforced
DeleteNoCascade(im, id) == im

\* FOREIGN KEY(card_id) REFERENCES cards(id) ON DELETE CASCADE (line 58),
\* enforced by PRAGMA foreign_keys=ON (line 32)
DeleteCascade(im, id) == {r \in im : r.card_id # id}

\* no store call is part-way through
Idle == call.status # "inserted"

Called(op, id, k, b, status, cascaded) ==
    [op |-> op, card_id |-> id, field_key |-> k, png |-> b,
     status |-> status, cascaded |-> cascaded, n |-> call.n + 1]

\* create_card, lines 68-73.  A name taken raises IntegrityError (UNIQUE,
\* line 47) before the commit.
CreateCard(name) ==
    /\ Idle
    /\ call.n < MaxCalls
    /\ cards.seq < MaxCards
    /\ IF \E r \in cards.rows : r.name = name
       THEN /\ call' = Called("create_card", 0, "", NULL, "raised", 0)
            /\ UNCHANGED <<cards, disk>>
       ELSE /\ cards' = [rows |-> cards.rows \cup
                                    {[id |-> cards.seq + 1, name |-> name,
                                      created_at |-> clock, updated_at |-> clock]},
                         seq |-> cards.seq + 1]
            /\ disk' = <<cards', images>>
            /\ call' = Called("create_card", cards.seq + 1, "", NULL, "done", 0)
    /\ UNCHANGED <<images, clock, session>>

\* delete_card, lines 80-82
DeleteCard(id) ==
    /\ Idle
    /\ call.n < MaxCalls
    /\ cards' = [cards EXCEPT !.rows = {r \in cards.rows : r.id # id}]
    /\ images' = DeleteCascade(images, id)
    /\ disk' = <<cards', images'>>
    /\ call' = Called("delete_card", id, "", NULL, "done",
                      Cardinality({r \in images : r.card_id = id}))
    /\ UNCHANGED <<clock, session>>

\* set_image lines 106-114 (clear_image: b = NULL): the upsert is executed,
\* in the transaction sqlite3 opens for it.  For a card that does not
\* exist the foreign key raises IntegrityError and the row is not stored.
SetImageExecute(id, k, b) ==
    /\ Idle
    /\ call.n < MaxCalls
    /\ IF HasCard(cards, id)
       THEN /\ images' = Upsert(images, id, k, b, clock)
            /\ call' = Called("set_image", id, k, b, "inserted", 0)
       ELSE /\ images' = images
            /\ call' = Called("set_image", id, k, b, "raised", 0)
    /\ UNCHANGED <<cards, disk, clock, session>>

\* set_image line 115 -> touch_card, lines 84-87: the card's updated_at is
\* set and the transaction committed
TouchCard ==
    /\ call.status = "inserted"
    /\ cards' = Touch(cards, call.card_id, clock)
    /\ disk' = <<cards', images>>
    /\ call' = [call EXCEPT !.status = "done"]
    /\ UNCHANGED <<images, clock, session>>

\* set_image fails after its upsert: touch_card's UPDATE raises ("execute"),
\* or its commit does ("commit"), or the error makes SQLite roll the
\* transaction back ("rollback").  Nothing in set_image or its callers rolls
\* back or closes the connection.
FailPoints == {"execute", "commit", "rollback"}
SetImageRaises(at) ==
    /\ call.status = "inserted"
    /\ cards' = IF at = "execute" THEN cards
                ELSE IF at = "commit" THEN Touch(cards, call.card_id, clock)
                ELSE disk[1]
    /\ images' = IF at = "rollback" THEN disk[2] ELSE images
    /\ call' = [call EXCEPT !.status = "raised"]
    /\ UNCHANGED <<disk, clock, session>>

\* Database.commit, lines 120-121 (App.on_commit)
Commit ==
    /\ Idle
    /\ call.n < MaxCalls
    /\ disk' = <<cards, images>>
    /\ call' = Called("commit", 0, "", NULL, "done", 0)
    /\ UNCHANGED <<cards, images, clock, session>>

\* the process dies, at any point, and the database is opened again: the
\* connection sees what was committed
Crash ==
    /\ cards' = disk[1]
    /\ images' = disk[2]
    /\ call' = [call EXCEPT !.op = "crash", !.status = "done"]
    /\ UNCHANGED <<disk, clock, session>>

\* now_utc() moves on by a second
Tick ==
    /\ clock < MaxClock
    /\ clock' = clock + 1
    /\ UNCHANGED <<cards, images, disk, call, session>>

NextStore ==
    \/ \E name \in Names : CreateCard(name)
    \/ \E id \in 1..MaxCards : DeleteCard(id)
    \/ \E id \in 1..MaxCards, k \in FieldKeys, b \in Blobs \cup {NULL} :
          SetImageExecute(id, k, b)
    \/ TouchCard
    \/ \E at \in FailPoints : SetImageRaises(at)
    \/ Commit
    \/ Crash
    \/ Tick

\* Database(path) has opened one of the files; no editor is open
InitStore ==
    /\ NoEditor
    /\ paste = None
    /\ picked = None
    /\ app_error = ""
    /\ \E seed \in StoreSeeds :
          /\ cards = seed[1]
          /\ images = seed[2]
          /\ disk = seed
    /\ clock = 0
    /\ call = NoCall
    /\ BeyondIdle

SpecStore == InitStore /\ [][NextStore]_vars

(* --------------------------- the main window -------------------------- *)
\* the names in the order list_cards returns them (ORDER BY name)
NameOrder == <<"A", "B">>
NameRank(n) == CHOOSE i \in 1..Len(NameOrder) : NameOrder[i] = n
\* the row the listbox shows first
FirstCard(rows) ==
    CHOOSE r \in rows : \A q \in rows : NameRank(r.name) <= NameRank(q.name)

\* how a store call ends: it returns ("none"); its first statement raises
\* and nothing has changed ("execute"); set_image's upsert has run and
\* touch_card's UPDATE raises ("touch"); every statement has run and the
\* commit raises ("commit")
StoreFailures == {"none", "execute", "touch", "commit"}

\* set_image / clear_image, db.py lines 105-118, as one call:
\* <<cards, images, disk, returned>> afterwards
StoreSetImage(cs, im, dk, id, k, b, ts, fail) ==
    IF ~HasCard(cs, id) \/ fail = "execute" THEN <<cs, im, dk, FALSE>>
    ELSE IF fail = "touch" THEN <<cs, Upsert(im, id, k, b, ts), dk, FALSE>>
    ELSE IF fail = "commit"
    THEN <<Touch(cs, id, ts), Upsert(im, id, k, b, ts), dk, FALSE>>
    ELSE <<Touch(cs, id, ts), Upsert(im, id, k, b, ts),
           <<Touch(cs, id, ts), Upsert(im, id, k, b, ts)>>, TRUE>>

\* create_card, db.py lines 68-73, as one call
StoreCreateCard(cs, im, dk, name, ts, fail) ==
    LET added == [rows |-> cs.rows \cup {[id |-> cs.seq + 1, name |-> name,
                                          created_at |-> ts, updated_at |-> ts]},
                  seq |-> cs.seq + 1]
    IN  IF (\E r \in cs.rows : r.name = name) \/ fail \in {"execute", "touch"}
        THEN <<cs, im, dk, FALSE>>
        ELSE IF fail = "commit" THEN <<added, im, dk, FALSE>>
        ELSE <<added, im, <<added, im>>, TRUE>>

\* rename_card, db.py lines 75-78, as one call; UNIQUE(name) raises when
\* another card has the name
StoreRenameCard(cs, im, dk, id, name, ts, fail) ==
    LET renamed == [cs EXCEPT !.rows =
                       {IF r.id = id
                        THEN [r EXCEPT !.name = name, !.updated_at = ts]
                        ELSE r : r \in cs.rows}]
    IN  IF (HasCard(cs, id) /\ \E r \in cs.rows : r.name = name /\ r.id # id)
           \/ fail \in {"execute", "touch"}
        THEN <<cs, im, dk, FALSE>>
        ELSE IF fail = "commit" THEN <<renamed, im, dk, FALSE>>
        ELSE <<renamed, im, <<renamed, im>>, TRUE>>

\* delete_card, db.py lines 80-82, as one call
StoreDeleteCard(cs, im, dk, id, fail) ==
    LET left == [cs EXCEPT !.rows = {r \in cs.rows : r.id # id}]
    IN  IF fail \in {"execute", "touch"} THEN <<cs, im, dk, FALSE>>
        ELSE IF fail = "commit" THEN <<left, DeleteCascade(im, id), dk, FALSE>>
        ELSE <<left, DeleteCascade(im, id),
               <<left, DeleteCascade(im, id)>>, TRUE>>

\* mutant: the view assigned whether or not the store call returned
ViewAfterAlways(returned, old, new) == new

\* app.py lines 643-649 and 614-619: current_images is assigned from
\* get_images_for_card in the try, after the store call; an exception of
\* the call skips the assignment
ViewAfter(returned, old, new) == IF returned THEN new ELSE old

\* what the handlers of the main window leave alone
aside == <<phase, attrs, original, out_size, base_scale, state, zoom_var,
           drag_start, pending_render, timers, canvas, crop_rect,
           preview_photo, result_png, rendered, batchN, batchRenders,
           last_op, nops, pointer_in, paste, picked, clock, zoomed,
           settings, grid>>

\* on_list_select lines 290-300 for the listbox entry of the name given
\* (<<ListboxSelect>>, or on_list_hover lines 302-314 moving the selection):
\* <<current_card, current_images>> afterwards; without an entry of that
\* name nothing is selected and the handler returns
ListSelect(lst, im, name, card, view) ==
    IF ~\E r \in lst : r.name = name THEN <<card, view>>
    ELSE LET c == CHOOSE r \in lst : r.name = name
         IN  <<c, GetImagesForCard(im, c.id)>>

\* select_first_card, lines 273-282
SelectFirstCard(lst, im, card, view) ==
    IF lst = {} THEN <<None, <<>>>>
    ELSE ListSelect(lst, im, FirstCard(lst).name, card, view)

\* App.__init__ lines 148-164: Database(path) on one of the files,
\* refresh_cards and select_first_card
InitApp ==
    /\ NoEditor
    /\ paste = None
    /\ picked = None
    /\ app_error = ""
    /\ \E seed \in StoreSeeds :
          /\ cards = seed[1]
          /\ images = seed[2]
          /\ disk = seed
    /\ clock = 0
    /\ call = NoCall
    /\ zoomed = None
    /\ settings = DefaultSettings
    /\ grid = None
    /\ listed = cards.rows
    /\ current_card = SelectFirstCard(cards.rows, images, None, <<>>)[1]
    /\ current_images = SelectFirstCard(cards.rows, images, None, <<>>)[2]
    /\ WindowIdle

\* the database handle, the path the settings name and the files
database == <<db, db_path, files>>

\* a call on the handle as it is: on a closed connection every statement
\* raises sqlite3.ProgrammingError before it does anything
Handle(fail) == IF db.open THEN fail ELSE "execute"

\* the user picks (or hovers over) a listbox entry; current_card is
\* assigned (line 298) before get_images_for_card is called (line 299), and
\* render_preview (line 300) forgets the clicked cell
OnListSelect(name) ==
    /\ call.n < MaxCalls
    /\ \E r \in listed : r.name = name
    /\ LET sel == ListSelect(listed, images, name, current_card, current_images)
       IN  /\ current_card' = sel[1]
           /\ current_images' = IF db.open THEN sel[2] ELSE current_images
    /\ last_clicked_field' = IF db.open THEN "" ELSE last_clicked_field
    /\ call' = Called("on_list_select", current_card'.id, "", NULL,
                      IF db.open THEN "done" ELSE "raised", 0)
    /\ app_error' = IF db.open THEN "" ELSE app_error
    /\ UNCHANGED <<cards, images, disk, listed, cell_menu, database, aside>>

\* on_add_card, lines 319-338
OnAddCard(name, fail) ==
    /\ call.n < MaxCalls
    /\ cards.seq < MaxCards
    /\ LET o == StoreCreateCard(cards, images, disk, name, clock, Handle(fail))
           sel == ListSelect(o[1].rows, o[2], name, current_card, current_images)
       IN  /\ cards' = o[1]
           /\ images' = o[2]
           /\ disk' = o[3]
           /\ listed' = IF o[4] THEN o[1].rows ELSE listed
           /\ current_card' = IF o[4] THEN sel[1] ELSE current_card
           /\ current_images' = IF o[4] THEN sel[2] ELSE current_images
           /\ last_clicked_field' = IF o[4] THEN "" ELSE last_clicked_field
           /\ app_error' = IF o[4] THEN "" ELSE "Chyba"
           /\ call' = Called("create_card", 0, "", NULL,
                             IF o[4] THEN "done" ELSE "raised", 0)
    /\ UNCHANGED <<cell_menu, database, aside>>

\* on_rename_card, lines 340-360
OnRenameCard(name, fail) ==
    /\ call.n < MaxCalls
    /\ current_card # None
    /\ LET o == StoreRenameCard(cards, images, disk, current_card.id, name,
                                clock, Handle(fail))
           sel == ListSelect(o[1].rows, o[2], name, current_card, current_images)
       IN  /\ cards' = o[1]
           /\ images' = o[2]
           /\ disk' = o[3]
           /\ listed' = IF o[4] THEN o[1].rows ELSE listed
           /\ current_card' = IF o[4] THEN sel[1] ELSE current_card
           /\ current_images' = IF o[4] THEN sel[2] ELSE current_images
           /\ last_clicked_field' = IF o[4] THEN "" ELSE last_clicked_field
           /\ app_error' = IF o[4] THEN "" ELSE "Chyba"
           /\ call' = Called("rename_card", current_card.id, "", NULL,
                             IF o[4] THEN "done" ELSE "raised", 0)
    /\ UNCHANGED <<cell_menu, database, aside>>

\* on_delete_card, lines 362-373
OnDeleteCard(fail) ==
    /\ call.n < MaxCalls
    /\ current_card # None
    /\ LET o == StoreDeleteCard(cards, images, disk, current_card.id,
                                Handle(fail))
           sel == SelectFirstCard(o[1].rows, o[2], current_card, current_images)
       IN  /\ cards' = o[1]
           /\ images' = o[2]
           /\ disk' = o[3]
           /\ listed' = IF o[4] THEN o[1].rows ELSE listed
           /\ current_card' = IF o[4] THEN sel[1] ELSE current_card
           /\ current_images' = IF o[4] THEN sel[2] ELSE current_images
           /\ last_clicked_field' = IF o[4] THEN "" ELSE last_clicked_field
           /\ app_error' = IF o[4] THEN "" ELSE "Chyba"
           /\ call' = Called("delete_card", current_card.id, "", NULL,
                             IF o[4] THEN "done" ELSE "raised",
                             Cardinality({r \in images : r.card_id = current_card.id}))
    /\ UNCHANGED <<cell_menu, database, aside>>

\* on_preview_click, lines 587-594, on the cell of the key k, with
\* _select_image_for_field left before the store is called (no file chosen,
\* lines 629-630, or the editor cancelled, lines 640-641): the cell
\* stays the last clicked one, and a menu posted earlier stays as it is
OnPreviewClick(k) ==
    /\ current_card # None
    /\ last_clicked_field' = k
    /\ UNCHANGED <<cards, images, disk, call, app_error, listed, current_card,
                   current_images, cell_menu, database, aside>>

\* on_preview_click on the cell of the key k, with _select_image_for_field
\* lines 643-649 for the editor's result b
OnSetImage(k, b, fail) ==
    /\ call.n < MaxCalls
    /\ current_card # None
    /\ LET o == StoreSetImage(cards, images, disk, current_card.id, k, b,
                              clock, Handle(fail))
       IN  /\ cards' = o[1]
           /\ images' = o[2]
           /\ disk' = o[3]
           /\ current_images' =
                  ViewAfter(o[4], current_images,
                            GetImagesForCard(o[2], current_card.id))
           /\ last_clicked_field' = IF o[4] THEN "" ELSE k
           /\ app_error' = IF o[4] THEN "" ELSE "Chyba"
           /\ call' = Called("set_image", current_card.id, k, b,
                             IF o[4] THEN "done" ELSE "raised", 0)
    /\ UNCHANGED <<listed, current_card, cell_menu, database, aside>>

\* on_preview_right_click, lines 596-606, on the cell of the key k: the
\* cell is remembered and the menu posted; grab_release (line 606) leaves
\* the menu posted while other handlers run
OnPreviewRightClick(k) ==
    /\ current_card # None
    /\ last_clicked_field' = k
    /\ cell_menu' = [field |-> k, card |-> current_card.id]
    /\ UNCHANGED <<cards, images, disk, call, app_error, listed, current_card,
                   current_images, database, aside>>

\* the posted menu is dismissed without its entry being chosen
MenuUnpost ==
    /\ cell_menu # None
    /\ cell_menu' = None
    /\ UNCHANGED <<cards, images, disk, call, app_error, listed, current_card,
                   current_images, last_clicked_field, database, aside>>

\* _clear_last_cell, lines 608-619, the command of the menu's only entry
\* (line 252), with the question answered yes: it returns when no card is
\* current or no cell is remembered
OnClearLastCell(fail) ==
    /\ call.n < MaxCalls
    /\ cell_menu # None
    /\ cell_menu' = None
    /\ IF current_card = None \/ last_clicked_field = ""
       THEN UNCHANGED <<cards, images, disk, current_images,
                        last_clicked_field, app_error, call>>
       ELSE LET o == StoreSetImage(cards, images, disk, current_card.id,
                                   last_clicked_field, NULL, clock,
                                   Handle(fail))
            IN  /\ cards' = o[1]
                /\ images' = o[2]
                /\ disk' = o[3]
                /\ current_images' =
                       ViewAfter(o[4], current_images,
                                 GetImagesForCard(o[2], current_card.id))
                /\ last_clicked_field' =
                       IF o[4] THEN "" ELSE last_clicked_field
                /\ app_error' = IF o[4] THEN "" ELSE "Chyba"
                /\ call' = Called("clear_image", current_card.id,
                                  last_clicked_field, NULL,
                                  IF o[4] THEN "done" ELSE "raised", 0)
    /\ UNCHANGED <<listed, current_card, database, aside>>

\* on_commit, lines 438-443
OnCommit ==
    /\ call.n < MaxCalls
    /\ disk' = IF db.open THEN <<cards, images>> ELSE disk
    /\ call' = Called("commit", 0, "", NULL,
                      IF db.open THEN "done" ELSE "raised", 0)
    /\ app_error' = IF db.open THEN "" ELSE "Chyba"
    /\ UNCHANGED <<cards, images, listed, current_card, current_images,
                   window, aside>>

\* now_utc() moves on by a second
AppTick ==
    /\ clock < MaxClock
    /\ clock' = clock + 1
    /\ UNCHANGED <<phase, attrs, original, out_size, base_scale, state,
                   zoom_var, drag_start, pending_render, timers, canvas,
                   crop_rect, preview_photo, result_png, rendered, batchN,
                   batchRenders, last_op, nops, pointer_in>>
    /\ UNCHANGED <<paste, picked, app_error, cards, images, disk, call, beyond>>

NextApp ==
    \/ \E name \in Names : OnListSelect(name)
    \/ \E name \in Names, fail \in StoreFailures : OnAddCard(name, fail)
    \/ \E name \in Names, fail \in StoreFailures : OnRenameCard(name, fail)
    \/ \E fail \in StoreFailures : OnDeleteCard(fail)
    \/ \E k \in FieldKeys : OnPreviewClick(k)
    \/ \E k \in FieldKeys, b \in Blobs, fail \in StoreFailures :
          OnSetImage(k, b, fail)
    \/ \E k \in FieldKeys : OnPreviewRightClick(k)
    \/ MenuUnpost
    \/ \E fail \in StoreFailures : OnClearLastCell(fail)
    \/ \E size \in PreviewSizes : OnPreviewConfigure(size)
    \/ OnCommit
    \/ AppTick

SpecApp == InitApp /\ [][NextApp]_vars

(* ------------------------- switching the database --------------------- *)
\* _reopen_db, lines 393-401, for the path given.  The handle in use is
\* closed first (what it had not committed is lost); Database(path), line
\* 398, is in no try: when it raises, self.db stays the closed handle and
\* refresh_cards and select_first_card are not reached.
ReopenDb(path) ==
    LET closed == [files EXCEPT ![db.path] = disk]
        sel == SelectFirstCard(closed[path][1].rows, closed[path][2],
                               current_card, current_images)
    IN  /\ files' = closed
        /\ IF Opens(path)
           THEN /\ db' = [path |-> path, open |-> TRUE]
                /\ disk' = closed[path]
                /\ cards' = closed[path][1]
                /\ images' = closed[path][2]
                /\ listed' = closed[path][1].rows
                /\ current_card' = sel[1]
                /\ current_images' = sel[2]
                /\ last_clicked_field' = ""
           ELSE /\ db' = [db EXCEPT !.open = FALSE]
                /\ cards' = disk[1]
                /\ images' = disk[2]
                /\ UNCHANGED <<disk, listed, current_card, current_images,
                               last_clicked_field>>

\* on_load_db, lines 403-412, for the file chosen: the path is put into the
\* settings and saved (lines 410-411) before the database is opened
OnLoadDb(path) ==
    /\ call.n < MaxCalls
    /\ db_path' = path
    /\ ReopenDb(path)
    /\ call' = Called("on_load_db", 0, "", NULL,
                      IF Opens(path) THEN "done" ELSE "raised", 0)
    /\ UNCHANGED <<app_error, cell_menu, aside>>

\* on_settings, lines 378-391, for a dialog result whose db_path differs
\* from the one in use (ratio and width as they were): the result is
\* saved (lines 386-387) before the database is opened
OnSettingsDb(path) ==
    /\ call.n < MaxCalls
    /\ path # db_path
    /\ db_path' = path
    /\ ReopenDb(path)
    /\ call' = Called("on_settings", 0, "", NULL,
                      IF Opens(path) THEN "done" ELSE "raised", 0)
    /\ UNCHANGED <<app_error, cell_menu, aside>>

\* App.__init__ lines 148-164 on the default database, with another
\* database file beside it
InitSwitch ==
    /\ NoEditor
    /\ paste = None
    /\ picked = None
    /\ app_error = ""
    /\ \E seed \in StoreSeeds :
          /\ cards = seed[1]
          /\ images = seed[2]
          /\ disk = seed
    /\ clock = 0
    /\ call = NoCall
    /\ zoomed = None
    /\ settings = DefaultSettings
    /\ grid = None
    /\ listed = cards.rows
    /\ current_card = SelectFirstCard(cards.rows, images, None, <<>>)[1]
    /\ current_images = SelectFirstCard(cards.rows, images, None, <<>>)[2]
    /\ last_clicked_field = ""
    /\ cell_menu = None
    /\ db = [path |-> DefaultDb, open |-> TRUE]
    /\ db_path = DefaultDb
    /\ \E seed \in StoreSeeds : files = [NoFiles EXCEPT !["other.db"] = seed]

NextSwitch ==
    \/ \E path \in DbPaths : OnLoadDb(path)
    \/ \E path \in DbPaths : OnSettingsDb(path)
    \/ NextApp

SpecSwitch == InitSwitch /\ [][NextSwitch]_vars

(* ======================================================================= *)
(* The claims                                                              *)
(* ======================================================================= *)
Open == phase = "open"
Offsets(st) == <<st.offset_x, st.offset_y>>

\* C1: debounce coalescing.  The N >= 1 mutations of a batch (the mutations
\* since the latest _render) are followed by at most one execution of
\* _render: while none has run, a callback is outstanding; once one has run,
\* it has read the state as it is after the Nth mutation and no further
\* callback is outstanding for the batch.
C1_DebounceCoalescing ==
    (Open /\ batchN >= 1) =>
        /\ batchRenders <= 1
        /\ batchRenders = 0 => timers # <<>>
        /\ batchRenders = 1 => (rendered = <<state>> /\ timers = <<>>)

C1_Witness ==
    /\ Open
    /\ batchN >= 3
    /\ batchRenders = 1
    /\ rendered = <<state>>
    /\ state # TransformState

\* C2: eventual render.  While the session stays open and timer callbacks
\* are run, a state that the latest _render has not read leads to a _render
\* that reads the current state (or to the session being closed).
C2_EventualRender ==
    (Open /\ rendered # <<state>>) ~> (~Open \/ rendered = <<state>>)

C2_Witness ==
    /\ Open
    /\ nops >= 2
    /\ batchRenders = 1
    /\ pending_render = 0
    /\ rendered = <<state>>
    /\ preview_photo # None
    /\ preview_photo[1] = state

C5_OpensIdentity ==
    phase # "new" =>
        /\ phase = "open"
        /\ state = TransformState
        /\ drag_start = None
        /\ result_png = None

RotationStep ==
    /\ state'.angle_deg \in 0..359
    /\ OnRotate(360) => state'.angle_deg = state.angle_deg

\* C8: rotation normalization.  angle_deg is an integer in [0, 360) in every
\* state, and a rotate(360) step leaves it unchanged.
C8_RotationNormalized ==
    state.angle_deg \in 0..359 /\ [][RotationStep]_vars

C8_Witness ==
    /\ last_op = <<"_rotate", 360>>
    /\ state.angle_deg = 355

\* what C9 asks of one step
DragStep ==
    /\ \A xy \in PressXY :
          OnDragStart(xy[1], xy[2]) =>
              /\ drag_start' = <<xy[1], xy[2], state.offset_x, state.offset_y>>
              /\ state' = state
              /\ timers' = timers
    /\ OnDragEnd => (drag_start' = None /\ state' = state)
    /\ \A xy \in PointerXY :
          (drag_start = None /\ OnDragMove(xy[1], xy[2])) =>
              /\ Offsets(state') = Offsets(state)
              /\ drag_start' = None
              /\ timers' = timers
              /\ pending_render' = pending_render

DragMoveResult(xy) ==
    LET crop_w == crop_rect[3] - crop_rect[1]
        crop_h == crop_rect[4] - crop_rect[2]
    IN  /\ crop_w >= 1
        /\ crop_h >= 1
        /\ state'.offset_x =
              RAdd(drag_start[3],
                   Rat((xy[1] - drag_start[1]) * out_size[1], crop_w))
        /\ state'.offset_y =
              RAdd(drag_start[4],
                   Rat((xy[2] - drag_start[2]) * out_size[2], crop_h))
        /\ (xy[1] = drag_start[1] /\ xy[2] = drag_start[2]) =>
              Offsets(state') = <<drag_start[3], drag_start[4]>>

DragMoveStep ==
    \A xy \in PointerXY :
        (drag_start # None /\ "crop_rect" \in attrs /\ OnDragMove(xy[1], xy[2]))
            => DragMoveResult(xy)

LeaveStep == (drag_start # None /\ OnLeave) => drag_start' = None

ResetStep ==
    OnReset =>
        /\ state' = TransformState
        /\ pending_render' # 0
        /\ pending_render' \in Range(timers')

\* C12: reset.  From any reachable state the Reset control sets the
\* TransformState to the identity (zoom 1, angle 0, offset (0, 0)) and leaves
\* a render callback scheduled.
C12_Reset == [][ResetStep]_vars

\* the second of two handler calls was a reset, of a rotated state that had
\* been rendered
C12_Witness ==
    /\ Open
    /\ nops = 2
    /\ last_op = <<"_reset">>
    /\ state = TransformState
    /\ rendered # None
    /\ rendered[1].angle_deg # 0
    /\ pending_render # 0

\* what C13 asks of one step
SessionEndStep ==
    /\ phase' = "open" => result_png' = None
    /\ OnCancel => (phase' = "closed" /\ result_png' = None)
    /\ OnSave(TRUE) => (phase' = "closed" /\ result_png' = <<state>>)
    /\ (Open /\ phase' = "closed" /\ result_png' # None) => OnSave(TRUE)

SaveFailStep ==
    OnSave(FALSE) =>
        /\ last_op' = <<"_on_save", "showerror">>
        /\ phase' = "open"
        /\ state' = state
        /\ drag_start' = drag_start
        /\ result_png' = None
        /\ timers' = timers

C15_Cover ==
    (paste # None /\ state = TransformState) =>
        /\ paste[5] <= 0
        /\ paste[6] <= 0
        /\ paste[5] + paste[1] >= out_size[1]
        /\ paste[6] + paste[2] >= out_size[2]

\* the scaled source overhangs the output by an odd number of pixels, so
\* that the paste position is rounded from a half
C15_Witness ==
    /\ paste # None
    /\ state = TransformState
    /\ original[1] > 1
    /\ original[2] > 1
    /\ (paste[1] - out_size[1]) % 2 = 1
    /\ paste[5] < 0

\* a file that cannot be decoded, or decodes to a zero width or height
InvalidImage(f) == f.kind \in {"unidentified", "truncated"} \/ ZeroSided(f)

\* C16 (as claimed): once the selection of an invalid source file has run
\* its course, an error has been reported to the user, no editor window was
\* created and the store holds no image.
C16_InvalidSource ==
    (picked # None /\ InvalidImage(picked)
        /\ (app_error # "" \/ phase # "new")) =>
        /\ app_error # ""
        /\ phase = "new"
        /\ images = {}

\* at most one row per (card_id, field_key)
UniqueSlots(im) ==
    \A r1, r2 \in im :
        (r1.card_id = r2.card_id /\ r1.field_key = r2.field_key) => r1 = r2

\* the latest set_image stored bytes: they are what the card's mapping holds
LatestStored ==
    (call.op = "set_image" /\ call.status \in {"inserted", "done"}
        /\ call.png # NULL) =>
        /\ call.field_key \in DOMAIN GetImagesForCard(images, call.card_id)
        /\ GetImagesForCard(images, call.card_id)[call.field_key] = call.png

\* set_image with the bytes the slot already holds leaves the mapping as it is
IdempotentStep ==
    \A id \in 1..MaxCards, k \in FieldKeys, b \in Blobs :
        (/\ SetImageExecute(id, k, b)
         /\ k \in DOMAIN GetImagesForCard(images, id)
         /\ GetImagesForCard(images, id)[k] = b)
            => GetImagesForCard(images', id) = GetImagesForCard(images, id)

\* C17: slot upsert.  The store, as the connection sees it and as committed,
\* holds at most one row per (card, slot); after a set_image of bytes for an
\* existing card get_images_for_card returns those bytes for the slot; a
\* set_image of the bytes the slot already holds leaves the stored value.
C17_SlotUpsert ==
    /\ [](UniqueSlots(images) /\ UniqueSlots(disk[2]) /\ LatestStored)
    /\ [][IdempotentStep]_vars

\* a set_image has replaced other bytes committed for the same slot, a second
\* later
C17_Witness ==
    /\ call.op = "set_image"
    /\ call.status = "inserted"
    /\ call.png # NULL
    /\ \E r \in disk[2] :
          /\ r.card_id = call.card_id
          /\ r.field_key = call.field_key
          /\ r.png \notin {NULL, call.png}
          /\ r.updated_at < clock
    /\ GetImagesForCard(images, call.card_id)[call.field_key] = call.png

Without(f, k) == [x \in DOMAIN f \ {k} |-> f[x]]

\* what C18 asks of one step
ClearStep ==
    /\ \A id \in 1..MaxCards, k \in FieldKeys :
          SetImageExecute(id, k, NULL) =>
              /\ k \notin DOMAIN GetImagesForCard(images', id)
              /\ GetImagesForCard(images', id) =
                    Without(GetImagesForCard(images, id), k)
              /\ \A other \in 1..MaxCards \ {id} :
                    GetImagesForCard(images', other) =
                        GetImagesForCard(images, other)
    /\ TouchCard => images' = images

\* C18: clear semantics.  set_image(card, slot, None) leaves the slot's key
\* out of get_images_for_card(card), whatever the slot held, and leaves the
\* entries of every other slot and card as they were.
C18_Clear == [][ClearStep]_vars

\* a slot whose committed bytes are being cleared, next to a slot that
\* keeps its bytes
C18_Witness ==
    /\ call.op = "set_image"
    /\ call.status = "inserted"
    /\ call.png = NULL
    /\ \E r \in disk[2] :
          /\ r.card_id = call.card_id
          /\ r.field_key = call.field_key
          /\ r.png # NULL
    /\ DOMAIN GetImagesForCard(images, call.card_id) # {}
    /\ call.field_key \notin DOMAIN GetImagesForCard(images, call.card_id)

\* C19 (as claimed): whatever failed or crashed, every slot row that is
\* committed belongs to a committed card whose updated_at is at least as
\* late as the row's: no slot write is durable without its card's touch.
C19_WriteAtomic ==
    \A r \in disk[2] :
        \E c \in disk[1].rows : c.id = r.card_id /\ c.updated_at >= r.updated_at

\* what C20 asks of one step
DeleteStep ==
    \A id \in 1..MaxCards :
        DeleteCard(id) =>
            /\ id \notin ListCards(cards')
            /\ {r \in images' : r.card_id = id} = {}
            /\ DOMAIN GetImagesForCard(images', id) = {}
            /\ {r \in cards'.rows : r.id # id} = {r \in cards.rows : r.id # id}
            /\ {r \in images' : r.card_id # id} = {r \in images : r.card_id # id}
            /\ disk' = <<cards', images'>>

\* C20: delete cascade.  After delete_card(card) the card is not listed and
\* the store holds no slot row for it; the other cards and their slot rows
\* are as they were.
C20_DeleteCascade == [][DeleteStep]_vars

\* a card with slot rows was deleted, and another card kept its images
C20_Witness ==
    /\ call.op = "delete_card"
    /\ call.status = "done"
    /\ call.cascaded >= 1
    /\ \E c \in cards.rows : DOMAIN GetImagesForCard(images, c.id) # {}

\* C27: cover regardless of rotation.  With zoom 1 and offset (0, 0), for
\* every source size, output size and rotation by a multiple of 90 degrees,
\* the scaled and rotated source (rw, rh) pasted at (left, top) covers the
\* output rectangle: rw >= out_w, rh >= out_h, left <= 0, top <= 0,
\* left + rw >= out_w and top + rh >= out_h.
C27_CoverRotated ==
    (paste # None /\ state.zoom = R(1) /\ state.offset_x = R(0)
                  /\ state.offset_y = R(0)) =>
        /\ paste[3] >= out_size[1]
        /\ paste[4] >= out_size[2]
        /\ paste[5] <= 0
        /\ paste[6] <= 0
        /\ paste[5] + paste[3] >= out_size[1]
        /\ paste[6] + paste[4] >= out_size[2]

SaveLiveStep ==
    (Open /\ phase' = "closed" /\ result_png' # None) =>
        /\ result_png'[1] = state
        /\ state' = state
        /\ (preview_photo # None /\ preview_photo[1] = state) =>
               result_png'[1] = preview_photo[1]
        /\ (rendered # None /\ rendered # <<state>>) => result_png' # rendered

InZoomRange(p) == RLe(ZOOM_MIN, p) /\ RLe(p, ZOOM_MAX)

C25_OutputSpec ==
    /\ LET o == OutputSize(settings)
       IN  /\ o # ZeroDivisionError
           /\ o[1] > 0
           /\ o[2] > 0
    /\ last_op # <<"output_size", "ZeroDivisionError">>
    /\ out_size # None => (out_size[1] > 0 /\ out_size[2] > 0)

\* the cell indices of the grid, and the slots whose bytes decode / do not
Cells == 0..(Len(FIELDS) - 1)
Corrupt(im, k) == HasBytes(im, k) /\ im[k].kind \in {"unidentified", "truncated"}
Valid(im, k) == HasBytes(im, k) /\ im[k].kind = "png"

\* what C22 asks of the cells one renderer drew for the mapping im
Isolated(drawn, im) ==
    \A idx \in Cells :
        /\ drawn[idx] # None
        /\ drawn[idx].key = FIELDS[idx + 1]
        /\ Corrupt(im, FIELDS[idx + 1]) => drawn[idx].thumb = None
        /\ Valid(im, FIELDS[idx + 1]) => drawn[idx].thumb # None

\* C22: corrupt blob isolation.  When the bytes of a slot cannot be decoded,
\* the on-screen render and the PDF render both run through all 16 cells,
\* the cell of that slot shows no image, and every slot with valid bytes is
\* drawn in its own cell.
C22_CorruptIsolated ==
    (grid # None /\ current_card # None) =>
        /\ grid.screen # None => Isolated(grid.screen, current_images)
        /\ grid.pdf # None => Isolated(grid.pdf, current_images)

\* both renderers have run on a mapping whose first slot is corrupt and
\* whose last slot is valid
C22_Witness ==
    /\ grid # None
    /\ grid.pdf # None
    /\ grid.cv = <<640, 700>>
    /\ Corrupt(current_images, "skrin")
    /\ Valid(current_images, "dvere_koupelna")
    /\ grid.screen[15].thumb # None
    /\ grid.pdf[15].thumb # None
    /\ grid.screen[0].thumb = None

\* the cell idx lies in grid row idx div 4 and column idx mod 4: left edges
\* grow with the column, cells of a row share their vertical position
Placed(drawn, idx, jdx) ==
    /\ (idx % cols = jdx % cols) <=> (drawn[idx].box[1] = drawn[jdx].box[1])
    /\ (idx % cols < jdx % cols) <=> (drawn[idx].box[1] < drawn[jdx].box[1])
    /\ (idx \div cols = jdx \div cols) <=> (drawn[idx].box[2] = drawn[jdx].box[2])

\* C23: layout equivalence.  Both renderers place the slot at index i of
\* FIELDS in row i div 4, row 0 at the top of the page (the smallest y on
\* the screen, the largest y in the PDF), and column i mod 4, column 0 at
\* the left; the label strip ends at the cell's bottom edge and the image
\* area lies above it; and the two show an image in the same set of cells.
C23_LayoutEquivalent ==
    (grid # None /\ grid.pdf # None) =>
        /\ \A idx \in Cells, jdx \in Cells :
              /\ Placed(grid.screen, idx, jdx)
              /\ Placed(grid.pdf, idx, jdx)
              /\ (idx \div cols < jdx \div cols) <=>
                     (grid.screen[idx].box[2] < grid.screen[jdx].box[2])
              /\ (idx \div cols < jdx \div cols) <=>
                     (grid.pdf[idx].box[2] > grid.pdf[jdx].box[2])
        /\ \A idx \in Cells :
              /\ grid.screen[idx].key = FIELDS[idx + 1]
              /\ grid.pdf[idx].key = FIELDS[idx + 1]
              /\ grid.screen[idx].label[4] = grid.screen[idx].box[4]
              /\ grid.screen[idx].area[4] <= grid.screen[idx].label[2]
              /\ grid.pdf[idx].label[2] = grid.pdf[idx].box[2]
              /\ grid.pdf[idx].area[2] >= grid.pdf[idx].label[4]
        /\ {idx \in Cells : grid.screen[idx].thumb # None}
               = {idx \in Cells : grid.pdf[idx].thumb # None}

\* both renderers show the images of an inner cell and of the last cell,
\* and leave the first cell, whose bytes are cut short, without one
C23_Witness ==
    /\ grid # None
    /\ grid.pdf # None
    /\ grid.cv = <<1200, 600>>
    /\ current_images = [k \in FilledSlots |->
           IF k = "skrin" THEN [kind |-> "truncated", size |-> <<4, 6>>]
           ELSE [kind |-> "png", size |-> <<4, 6>>]]
    /\ {idx \in Cells : grid.pdf[idx].thumb # None} = {5, 15}

\* C24, on the screen: the thumbnail <<cx, cy, nw, nh>> lies inside the
\* image area and its margins differ by at most one pixel
FitsScreen(c) ==
    LET tw == c.area[3] - c.area[1]
        th == c.area[4] - c.area[2]
        left == c.thumb[1] - c.area[1]
        top == c.thumb[2] - c.area[2]
        right == c.area[3] - (c.thumb[1] + c.thumb[3])
        bottom == c.area[4] - (c.thumb[2] + c.thumb[4])
    IN  (tw >= 1 /\ th >= 1) =>
            /\ c.thumb[3] >= 1 /\ c.thumb[3] <= tw
            /\ c.thumb[4] >= 1 /\ c.thumb[4] <= th
            /\ left >= 0 /\ right >= 0 /\ Abs(left - right) <= 1
            /\ top >= 0 /\ bottom >= 0 /\ Abs(top - bottom) <= 1
            /\ c.thumb[3] = tw \/ c.thumb[4] = th

\* C24, in the PDF: <<dx, dy, dw, dh>> lies inside the image area with
\* equal margins on opposite sides
FitsPdf(c) ==
    LET img_w == R(c.area[3] - c.area[1])
        img_h == R(c.area[4] - c.area[2])
        left == RAdd(c.thumb[1], R(-c.area[1]))
        top == RAdd(c.thumb[2], R(-c.area[2]))
        right == RAdd(R(c.area[3]), RMul(R(-1), RAdd(c.thumb[1], c.thumb[3])))
        bottom == RAdd(R(c.area[4]), RMul(R(-1), RAdd(c.thumb[2], c.thumb[4])))
    IN  /\ RLt(R(0), c.thumb[3]) /\ RLe(c.thumb[3], img_w)
        /\ RLt(R(0), c.thumb[4]) /\ RLe(c.thumb[4], img_h)
        /\ RLe(R(0), left) /\ left = right
        /\ RLe(R(0), top) /\ top = bottom
        /\ c.thumb[3] = img_w \/ c.thumb[4] = img_h

\* C24: scale-to-fit.  Every thumbnail drawn for a decoded image, into an
\* image area of positive width and height, is no wider and no higher than
\* the area (nothing is cropped) and is centred in it: margins on opposite
\* sides are equal, up to one pixel on the screen.
C24_ScaleToFit ==
    grid # None =>
        /\ \A idx \in Cells :
               grid.screen[idx].thumb # None => FitsScreen(grid.screen[idx])
        /\ grid.pdf # None =>
               \A idx \in Cells :
                   grid.pdf[idx].thumb # None => FitsPdf(grid.pdf[idx])

\* a thumbnail whose left and right margins differ by one pixel, in an area
\* of positive size, with the PDF drawn as well
C24_Witness ==
    /\ grid # None
    /\ grid.pdf # None
    /\ \E idx \in Cells :
           /\ grid.screen[idx].thumb # None
           /\ grid.pdf[idx].thumb # None
           /\ grid.screen[idx].area[3] - grid.screen[idx].area[1] >= 1
           /\ grid.screen[idx].area[4] - grid.screen[idx].area[2] >= 1
           /\ grid.screen[idx].thumb[3] > 1
           /\ (grid.screen[idx].area[3] - grid.screen[idx].area[1]
                   - grid.screen[idx].thumb[3]) % 2 = 1

\* a handler that sets or clears a slot image has run in this step
SlotStep == call'.n = call.n + 1 /\ call'.op \in {"set_image", "clear_image"}

StoreFailStep ==
    /\ (SlotStep /\ call'.status = "raised") =>
           /\ app_error' = "Chyba"
           /\ current_images' = current_images
           /\ current_card' = current_card
    /\ (SlotStep /\ current_images' # current_images) =>
           /\ call'.status = "done"
           /\ app_error' = ""
           /\ disk' = <<cards', images'>>
           /\ current_images' = GetImagesForCard(disk'[2], current_card.id)

\* C21: store failure.  When set_image or clear_image fails in the store,
\* the failure is reported in an error box and current_images keeps its
\* value; current_images is replaced only in a step whose store call has
\* returned, and then by what the store holds for the current card.
C21_StoreFailure == [][StoreFailStep]_vars

\* a set_image that failed after its upsert had run: the error is shown,
\* the view still holds the image the slot had before
C21_Witness ==
    /\ call.op = "set_image"
    /\ call.status = "raised"
    /\ app_error = "Chyba"
    /\ current_card # None
    /\ call.field_key \in DOMAIN current_images
    /\ current_images[call.field_key] # call.png
    /\ images # disk[2]

\* C30 (as claimed): the in-memory view matches the store.  After every
\* handler, succeeding or failing, current_images is what
\* get_images_for_card returns for the current card on the open
\* connection, and it is empty when there is no current card.
C30_ViewMatchesStore ==
    IF current_card = None THEN current_images = <<>>
    ELSE current_images = GetImagesForCard(images, current_card.id)

C31_CurrentCardValid ==
    /\ (current_card = None) <=> (cards.rows = {})
    /\ current_card # None =>
           \E r \in cards.rows :
               r.id = current_card.id /\ r.name = current_card.name

\* C34 (as claimed): a failed database switch is recoverable.  Whatever
\* Load or Settings was given, the application holds an open database
\* handle and the db_path the settings name (in memory and in
\* settings.json) is one that Database(path) opens.
C34_SwitchRecoverable == db.open /\ Opens(db_path)

\* C32 (as claimed): clear targets the clicked cell.  A clear_image call
\* made by the menu's command is for the cell the menu was posted on by the
\* latest right click and for the card that was current at that click.
C32_ClearTargetsClicked ==
    [][(call' # call /\ call'.op = "clear_image")
          => /\ cell_menu # None
             /\ call'.field_key = cell_menu.field
             /\ call'.card_id = cell_menu.card]_vars
====
